---------------------------- MODULE Spec2Model ----------------------------
(***************************************************************************)
(* A model of bullet_stream: the paragraph-tracking writer, the line       *)
(* mapping writer, the stream multiplexer, the global writer and the       *)
(* Print typestate machine.                                                 *)
(*                                                                         *)
(* Byte strings are sequences of one-character strings.  Each component    *)
(* has its own specification (SpecParagraph, SpecMapped, ...); a           *)
(* specification leaves the variables of the other components untouched.   *)
(***************************************************************************)
EXTENDS Integers, Sequences, FiniteSets, TLC

VARIABLES
    piw,        \* SpecParagraph: the ParagraphInspectWrite under test
    piwBase,    \* SpecParagraph: (was_paragraph, newlines) when the current byte string began
    piwWhole,   \* SpecParagraph: concatenation of the chunks written since piwBase
    piwChunks,  \* SpecParagraph: number of write calls since piwBase
    mw,         \* SpecMapped: the MappedWrite (inner: "Some"/"None", buffer, mapping_fn)
    mwLife,     \* SpecMapped: "live", "unwrapped" or "dropped"
    mwInnerOk,  \* SpecMapped: whether the inner sink accepts writes
    mwOut,      \* SpecMapped: the bytes the inner sink received
    mwCalls,    \* SpecMapped: the arguments mapping_fn was called with, in order
    mwInput,    \* SpecMapped: the bytes written to the MappedWrite, in order
    pstate,     \* Spec: the state type of the Print handle
    started,    \* Spec: Print.started
    pw,         \* Spec: the handle's ParagraphInspectWrite (inner: the bytes of the sink)
    prCap,      \* Spec: how much the sink accepts per write call ("all" or "one")
    sw,         \* Spec: the MappedWrite of the Stream state
    tm,         \* Spec: the Background timer (worker position, stop signal, pending join)
    hist,       \* Spec: the method calls made on the handle, in order
    mpMode,     \* SpecMpsc: the caller of mpsc_stream_to_output ("internal" or "stream_with")
    mpPc,       \* SpecMpsc: the position of the calling thread
    mpCons,     \* SpecMpsc: the position of the consumer thread
    mpHandles,  \* SpecMpsc: the live writer handles, each holding a Sender of the channel
    mpBuf,      \* SpecMpsc: the MappedWrite of each boxed writer
    mpChan,     \* SpecMpsc: the messages in the channel, oldest first
    mpOut,      \* SpecMpsc: the consumer's ParagraphInspectWrite (inner: the bytes of the sink)
    mpRet,      \* SpecMpsc: what the producing closure returned
    mpSent,     \* SpecMpsc: the chunks written through each handle, in order
    glWriter,   \* SpecGlobal: the box in WRITER (the sink, its type, its paragraph writer)
    glScopeLock,\* SpecGlobal: the thread holding WITH_WRITER_GLOBAL_LOCK, or "free"
    glFlag,     \* SpecGlobal: WITH_WRITER_REENTRANT_CHECK of each thread
    glPc,       \* SpecGlobal: the position of each thread
    glLocal,    \* SpecGlobal: the locals of each thread's with_locked_writer call
    glSeen,     \* SpecGlobal: per thread, WRITER as the call found it and whether the body panicked
    glResult,   \* SpecGlobal: how each thread's last call ended
    glOps,      \* SpecGlobal: the calls made so far
    glNextId,   \* SpecGlobal: the identity of the next sink a caller creates
    anBody,     \* SpecAnsi: the text the colouring started from
    anOut,      \* SpecAnsi: the text after the wrap_ansi_escape_each_line calls so far
    anColors,   \* SpecAnsi: the colours of those calls, innermost first
    ghWriter,   \* SpecGlobalHandle: the paragraph writer in WRITER
    ghHandle,   \* SpecGlobalHandle: the handle made by Print::global, or the reads made for it
    ghLast,     \* SpecGlobalHandle: what the last write to the process-wide sink was
    ghOps       \* SpecGlobalHandle: the calls made so far

piwVars == <<piw, piwBase, piwWhole, piwChunks>>
mwVars == <<mw, mwLife, mwInnerOk, mwOut, mwCalls, mwInput>>
prVars == <<pstate, started, pw, prCap, sw, tm, hist>>
mpVars == <<mpMode, mpPc, mpCons, mpHandles, mpBuf, mpChan, mpOut, mpRet, mpSent>>
glVars == <<glWriter, glScopeLock, glFlag, glPc, glLocal, glSeen, glResult, glOps, glNextId>>
anVars == <<anBody, anOut, anColors>>
ghVars == <<ghWriter, ghHandle, ghLast, ghOps>>

vars == <<piw, piwBase, piwWhole, piwChunks,
          mw, mwLife, mwInnerOk, mwOut, mwCalls, mwInput,
          pstate, started, pw, prCap, sw, tm, hist,
          mpMode, mpPc, mpCons, mpHandles, mpBuf, mpChan, mpOut, mpRet, mpSent,
          glWriter, glScopeLock, glFlag, glPc, glLocal, glSeen, glResult, glOps, glNextId,
          anBody, anOut, anColors,
          ghWriter, ghHandle, ghLast, ghOps>>

(***************************************************************************)
(* The values a component's variables keep while another component runs     *)
(***************************************************************************)
\* Option<Instant>: no instant, or the instant recorded.
None == <<>>
Some(instant) == <<instant>>

NoMappedWrite == [inner |-> "None", marker_byte |-> "\n", buffer |-> <<>>, mapping_fn |-> "none"]
NoTimer == [pc |-> "none", stop |-> FALSE, join |-> "none", detail |-> <<>>,
            ticks |-> 0, from |-> 0, label |-> <<>>, failed |-> FALSE]

IdleParagraph ==
    /\ piw = [inner |-> <<>>, was_paragraph |-> FALSE, newlines_since_last_char |-> 0]
    /\ piwBase = <<FALSE, 0>>
    /\ piwWhole = <<>>
    /\ piwChunks = 0

IdleMapped ==
    /\ mw = NoMappedWrite
    /\ mwLife = "idle"
    /\ mwInnerOk = TRUE
    /\ mwOut = <<>>
    /\ mwCalls = <<>>
    /\ mwInput = <<>>

IdlePrint ==
    /\ pstate = "idle"
    /\ started = None
    /\ pw = [inner |-> <<>>, was_paragraph |-> FALSE, newlines_since_last_char |-> 0]
    /\ prCap = "all"
    /\ sw = NoMappedWrite
    /\ tm = NoTimer
    /\ hist = <<>>

IdleMpsc ==
    /\ mpMode = "idle"
    /\ mpPc = "idle"
    /\ mpCons = "idle"
    /\ mpHandles = {}
    /\ mpBuf = <<>>
    /\ mpChan = <<>>
    /\ mpOut = [inner |-> <<>>, was_paragraph |-> FALSE, newlines_since_last_char |-> 0]
    /\ mpRet = "none"
    /\ mpSent = <<>>

IdleAnsi ==
    /\ anBody = <<>>
    /\ anOut = <<>>
    /\ anColors = <<>>

NoHandle == [pc |-> "none", state |-> "none", first |-> FALSE, torn |-> FALSE,
             w |-> [inner |-> <<>>, was_paragraph |-> FALSE, newlines_since_last_char |-> 0]]

IdleGlobalHandle ==
    /\ ghWriter = [inner |-> <<>>, was_paragraph |-> FALSE, newlines_since_last_char |-> 0]
    /\ ghHandle = NoHandle
    /\ ghLast = "none"
    /\ ghOps = 0

IdleGlobal ==
    /\ glWriter = [id |-> 0, type |-> "Stderr",
                   w |-> [inner |-> <<>>, was_paragraph |-> FALSE, newlines_since_last_char |-> 0]]
    /\ glScopeLock = "free"
    /\ glFlag = <<>>
    /\ glPc = <<>>
    /\ glLocal = <<>>
    /\ glSeen = <<>>
    /\ glResult = <<>>
    /\ glOps = 0
    /\ glNextId = 0

(***************************************************************************)
(* Bytes and byte strings                                                   *)
(***************************************************************************)
NL == "\n"

\* Longest chunk handed to one write call of the paragraph writer.
MaxChunk == 2
\* Longest content of the inner sink in SpecParagraph.
MaxInner == 5
\* Most write calls within one byte string in SpecParagraph.
MaxWrites == 3

RECURSIVE SeqsUpTo(_, _)
SeqsUpTo(S, n) ==
    IF n = 0 THEN {<<>>}
    ELSE LET shorter == SeqsUpTo(S, n - 1)
         IN  shorter \cup {Append(s, c) : s \in {t \in shorter : Len(t) = n - 1}, c \in S}

RECURSIVE Flatten(_)
Flatten(ss) == IF ss = <<>> THEN <<>> ELSE Head(ss) \o Flatten(Tail(ss))

Take(s, n) == SubSeq(s, 1, n)
Drop(s, n) == SubSeq(s, n + 1, Len(s))

\* str::split_inclusive on the marker byte: the records of a byte string,
\* each ending with the marker, and the unterminated remainder if not empty.
RECURSIVE SplitInclusive(_, _, _)
SplitInclusive(s, marker, cur) ==
    IF s = <<>> THEN (IF cur = <<>> THEN <<>> ELSE <<cur>>)
    ELSE IF Head(s) = marker
         THEN <<Append(cur, marker)>> \o SplitInclusive(Tail(s), marker, <<>>)
         ELSE SplitInclusive(Tail(s), marker, Append(cur, Head(s)))


(***************************************************************************)
(* Text helpers: str::trim, str::split, str::replace                        *)
(***************************************************************************)
\* char::is_whitespace on the characters the model uses
IsWhitespace(c) == c \in {" ", NL, "\t"}

RECURSIVE TrimStart(_)
TrimStart(s) ==
    IF s # <<>> /\ IsWhitespace(Head(s)) THEN TrimStart(Tail(s)) ELSE s

RECURSIVE TrimEnd(_)
TrimEnd(s) ==
    IF s # <<>> /\ IsWhitespace(s[Len(s)]) THEN TrimEnd(Take(s, Len(s) - 1)) ELSE s

Trim(s) == TrimEnd(TrimStart(s))

StartsWith(s, pat) == Len(pat) <= Len(s) /\ Take(s, Len(pat)) = pat

\* str::replace: every non-overlapping match, left to right
RECURSIVE Replace(_, _, _)
Replace(s, pat, rep) ==
    IF s = <<>> THEN <<>>
    ELSE IF StartsWith(s, pat) THEN rep \o Replace(Drop(s, Len(pat)), pat, rep)
    ELSE <<Head(s)>> \o Replace(Tail(s), pat, rep)

\* str::split('\n'): the pieces between newlines, the last one possibly empty
RECURSIVE SplitNewline(_, _)
SplitNewline(s, cur) ==
    IF s = <<>> THEN <<cur>>
    ELSE IF Head(s) = NL THEN <<cur>> \o SplitNewline(Tail(s), <<>>)
    ELSE SplitNewline(Tail(s), Append(cur, Head(s)))

\* [String]::join("\n")
RECURSIVE JoinNewline(_)
JoinNewline(ls) ==
    IF ls = <<>> THEN <<>>
    ELSE IF Len(ls) = 1 THEN ls[1]
    ELSE ls[1] \o <<NL>> \o JoinNewline(Tail(ls))

(***************************************************************************)
(* ansi_escape.rs                                                           *)
(***************************************************************************)
\* The escape character \x1B
ESC == "ESC"
RESET == <<ESC, "[", "0", "m">>
RED == <<ESC, "[", "0", ";", "3", "1", "m">>
YELLOW == <<ESC, "[", "0", ";", "3", "3", "m">>
BOLD_CYAN == <<ESC, "[", "1", ";", "3", "6", "m">>
BOLD_PURPLE == <<ESC, "[", "1", ";", "3", "5", "m">>
BOLD_UNDERLINE_CYAN == <<ESC, "[", "1", ";", "4", ";", "3", "6", "m">>
DIM == <<ESC, "[", "2", ";", "1", "m">>

\* One line of wrap_ansi_escape_each_line: the four map steps
WrapLine(ansi_escape, line) ==
    LET nested == Replace(line, RESET, RESET \o ansi_escape)
        wrapped == ansi_escape \o nested \o RESET
        reduced == Replace(wrapped, ansi_escape \o ansi_escape, ansi_escape)
    IN  Replace(reduced, ansi_escape \o RESET, <<>>)

RECURSIVE WrapLines(_, _)
WrapLines(ansi_escape, ls) ==
    IF ls = <<>> THEN <<>>
    ELSE <<WrapLine(ansi_escape, Head(ls))>> \o WrapLines(ansi_escape, Tail(ls))

wrap_ansi_escape_each_line(ansi_escape, body) ==
    JoinNewline(WrapLines(ansi_escape, SplitNewline(body, <<>>)))

\* A plausible slip: the m that ends a sequence is pushed to the result.
RECURSIVE StripFrom_KeepsM(_, _)
StripFrom_KeepsM(contents, in_sequence) ==
    IF contents = <<>> THEN <<>>
    ELSE LET char == Head(contents)
         IN  IF char = ESC THEN StripFrom_KeepsM(Tail(contents), TRUE)
             ELSE IF in_sequence /\ char # "m" THEN StripFrom_KeepsM(Tail(contents), TRUE)
             ELSE <<char>> \o StripFrom_KeepsM(Tail(contents), FALSE)

\* strip_ansi's loop over the characters
RECURSIVE StripFrom(_, _)
StripFrom(contents, in_sequence) ==
    IF contents = <<>> THEN <<>>
    ELSE LET char == Head(contents)
         IN  IF char = ESC THEN StripFrom(Tail(contents), TRUE)
             ELSE IF in_sequence THEN StripFrom(Tail(contents), char # "m")
             ELSE <<char>> \o StripFrom(Tail(contents), FALSE)

strip_ansi(contents) == StripFrom(contents, FALSE)

(***************************************************************************)
(* util.rs: prefix_lines, prefix_first_rest_lines                           *)
(***************************************************************************)
\* The lines of split_inclusive, each prefixed by first_prefix (index 0) or
\* rest_prefix; the empty string still gets the first prefix.
RECURSIVE PrefixEach(_, _, _, _)
PrefixEach(first_prefix, rest_prefix, lines, index) ==
    IF index > Len(lines) THEN <<>>
    ELSE (IF index = 1 THEN first_prefix ELSE rest_prefix) \o lines[index]
         \o PrefixEach(first_prefix, rest_prefix, lines, index + 1)

prefix_first_rest_lines(first_prefix, rest_prefix, contents) ==
    IF contents = <<>> THEN first_prefix
    ELSE PrefixEach(first_prefix, rest_prefix, SplitInclusive(contents, NL, <<>>), 1)

\* write.rs sub_bullet_prefix
sub_bullet_prefix(s) ==
    prefix_first_rest_lines(<<" ", " ", "-", " ">>, <<" ", " ", " ", " ">>, Trim(s))

\* style.rs details
details(contents) == <<"(">> \o contents \o <<")">>

(***************************************************************************)
(* util.rs: ParagraphInspectWrite                                           *)
(***************************************************************************)

\* buf.iter().rev().take_while(|&&c| c == b'\n').count()
RECURSIVE TrailingNewlineCount(_)
TrailingNewlineCount(buf) ==
    IF buf = <<>> \/ buf[Len(buf)] # NL THEN 0
    ELSE 1 + TrailingNewlineCount(Take(buf, Len(buf) - 1))

\* A plausible slip: the running count is always replaced, never added to.
NewlinesAfterWrite_AlwaysReplace(cur, buf) == TrailingNewlineCount(buf)

\* The new value of newlines_since_last_char after write(buf).
NewlinesAfterWrite(cur, buf) ==
    LET trailing_newline_count == TrailingNewlineCount(buf)
    IN  IF Len(buf) = trailing_newline_count
        THEN cur + trailing_newline_count
        ELSE trailing_newline_count

\* ParagraphInspectWrite::new
ParagraphInspectWriteNew(io) ==
    [inner |-> io, was_paragraph |-> FALSE, newlines_since_last_char |-> 0]

\* ParagraphInspectWrite::write, the inner sink accepting the first k bytes of buf.
ParagraphInspectWriteWrite(w, buf, k) ==
    LET n == NewlinesAfterWrite(w.newlines_since_last_char, buf)
    IN  [inner |-> w.inner \o Take(buf, k),
         was_paragraph |-> n > 1,
         newlines_since_last_char |-> n]

\* The pair the TrailingParagraph trait exposes.
ParagraphState(w) == <<w.was_paragraph, w.newlines_since_last_char>>

(***************************************************************************)
(* write.rs: the output functions, over a ParagraphInspectWrite             *)
(***************************************************************************)
\* How many bytes of buf the inner sink accepts in one write call.
Accepts(cap, buf) == IF cap = "all" THEN Len(buf) ELSE 1

\* io::Write::write_all: write until the whole buffer is accepted.
RECURSIVE WriteAll(_, _, _)
WriteAll(w, buf, cap) ==
    IF buf = <<>> THEN w
    ELSE LET k == Accepts(cap, buf)
         IN  WriteAll(ParagraphInspectWriteWrite(w, buf, k), Drop(buf, k), cap)

RECURSIVE WriteAllEach(_, _, _)
WriteAllEach(w, bufs, cap) ==
    IF bufs = <<>> THEN w ELSE WriteAllEach(WriteAll(w, Head(bufs), cap), Tail(bufs), cap)

\* writeln!(w, "{}", text): write_fmt passes the text and then the newline to write_all.
Writeln(w, text, cap) == WriteAll(WriteAll(w, text, cap), <<NL>>, cap)

\* writeln!(w)
WritelnEmpty(w, cap) == WriteAll(w, <<NL>>, cap)

\* A plausible slip: the blank line before the header is written unconditionally.
HeaderEmission_AlwaysNewline(w, marker, s, cap) ==
    LET w1 == WritelnEmpty(w, cap)
        w2 == Writeln(w1, wrap_ansi_escape_each_line(BOLD_PURPLE, marker \o Trim(s)), cap)
    IN  IF ~w2.was_paragraph THEN WritelnEmpty(w2, cap) ELSE w2

\* The body shared by h1, h2 and h3.
HeaderEmission(w, marker, s, cap) ==
    LET w1 == IF ~w.was_paragraph THEN WritelnEmpty(w, cap) ELSE w
        w2 == Writeln(w1, wrap_ansi_escape_each_line(BOLD_PURPLE, marker \o Trim(s)), cap)
    IN  IF ~w2.was_paragraph THEN WritelnEmpty(w2, cap) ELSE w2

write_h1(w, s, cap) == HeaderEmission(w, <<"#", " ">>, s, cap)
write_h2(w, s, cap) == HeaderEmission(w, <<"#", "#", " ">>, s, cap)
write_h3(w, s, cap) == HeaderEmission(w, <<"#", "#", "#", " ">>, s, cap)

write_bullet(w, s, cap) ==
    Writeln(w, prefix_first_rest_lines(<<"-", " ">>, <<" ", " ">>, Trim(s)), cap)

write_sub_bullet(w, s, cap) == Writeln(w, sub_bullet_prefix(s), cap)

\* The prefix closure of write_paragraph
ParagraphPrefix(line) == IF line = <<>> \/ line = <<NL>> THEN <<"!">> ELSE <<"!", " ">>

RECURSIVE ParagraphPrefixEach(_)
ParagraphPrefixEach(lines) ==
    IF lines = <<>> THEN <<>>
    ELSE ParagraphPrefix(Head(lines)) \o Head(lines) \o ParagraphPrefixEach(Tail(lines))

write_paragraph(io, color, s, cap) ==
    LET contents == Trim(s)
        io1 == IF ~io.was_paragraph THEN WritelnEmpty(io, cap) ELSE io
        body == IF contents = <<>> THEN ParagraphPrefix(<<>>)
                ELSE ParagraphPrefixEach(SplitInclusive(contents, NL, <<>>))
        io2 == Writeln(io1, wrap_ansi_escape_each_line(color, body), cap)
    IN  WritelnEmpty(io2, cap)

write_warning(w, s, cap) == write_paragraph(w, YELLOW, s, cap)
write_error(w, s, cap) == write_paragraph(w, RED, s, cap)
write_important(w, s, cap) == write_paragraph(w, BOLD_CYAN, s, cap)

\* duration_format::human for the short durations of the model
human == <<"<", " ", "0", ".", "1", "s">>

\* A plausible slip: the elapsed time is left out although the start is known.
write_all_done_NeverElapsed(w, st, cap) == write_bullet(w, <<"D", "o", "n", "e">>, cap)

write_all_done(w, st, cap) ==
    IF st # None
    THEN write_bullet(w, <<"D", "o", "n", "e", " ", "(", "f", "i", "n", "i", "s", "h", "e", "d",
                           " ", "i", "n", " ">> \o human \o <<")">>, cap)
    ELSE write_bullet(w, <<"D", "o", "n", "e">>, cap)

\* lib.rs writeln_now
writeln_now(destination, msg, cap) == Writeln(destination, msg, cap)

\* The arguments sub_start_print_interval passes to print_interval
TimerStartMark == wrap_ansi_escape_each_line(DIM, <<" ", ".">>)
TimerTickMark == wrap_ansi_escape_each_line(DIM, <<".">>)
TimerEndMark == wrap_ansi_escape_each_line(DIM, <<".", " ">>)
\* A plausible slip: no error text is passed.
TimerErrorText_Empty == <<>>
TimerErrorText == <<"(", "E", "r", "r", "o", "r", ")">>

(***************************************************************************)
(* SpecParagraph: arbitrary chunked writes to one paragraph writer          *)
(***************************************************************************)
PChunks == SeqsUpTo({"a", NL}, MaxChunk)

InitParagraph ==
    /\ IdleMapped
    /\ IdlePrint
    /\ IdleMpsc
    /\ IdleGlobal
    /\ IdleAnsi
    /\ IdleGlobalHandle
    /\ piw = ParagraphInspectWriteNew(<<>>)
    /\ piwBase = ParagraphState(ParagraphInspectWriteNew(<<>>))
    /\ piwWhole = <<>>
    /\ piwChunks = 0

\* One call of write; the inner sink (any io::Write) accepts k bytes.
PWrite ==
    \E chunk \in PChunks :
        \E k \in (IF chunk = <<>> THEN {0} ELSE 1..Len(chunk)) :
            /\ Len(piw.inner) + Len(chunk) <= MaxInner
            /\ piwChunks < MaxWrites
            /\ piw' = ParagraphInspectWriteWrite(piw, chunk, k)
            /\ piwWhole' = piwWhole \o chunk
            /\ piwChunks' = piwChunks + 1
            /\ UNCHANGED <<piwBase, mwVars, anVars, ghVars, prVars, mpVars, glVars>>

\* A new byte string begins at the writer's current state.
PBegin ==
    /\ piwChunks > 0
    /\ piwBase' = ParagraphState(piw)
    /\ piwWhole' = <<>>
    /\ piwChunks' = 0
    /\ UNCHANGED <<piw, mwVars, anVars, ghVars, prVars, mpVars, glVars>>

NextParagraph == PWrite \/ PBegin

SpecParagraph == InitParagraph /\ [][NextParagraph]_vars

\* C1: after any number (at least one) of write calls whose chunks concatenate
\* to S, the pair (trailing_paragraph, newline run length) equals the pair
\* that one write of S from the same starting state gives.
C1_FragmentationInsensitive ==
    LET start == [inner |-> <<>>, was_paragraph |-> piwBase[1],
                  newlines_since_last_char |-> piwBase[2]]
    IN  piwChunks > 0 =>
            ParagraphState(piw) = ParagraphState(ParagraphInspectWriteWrite(start, piwWhole, 0))

\* C1 witness: a string split into three chunks, one of them empty, two of
\* them newline-only, written from a state that already had a newline run.
C1_Witness ==
    /\ piwChunks >= 3
    /\ piwBase[2] > 0
    /\ piw.was_paragraph
    /\ Len(piwWhole) >= 3
    /\ piwWhole[1] = "a"

(***************************************************************************)
(* write.rs: MappedWrite                                                    *)
(***************************************************************************)
\* Total number of bytes written to the MappedWrite in SpecMapped.
MaxMappedInput == 4
\* Longest chunk handed to one write call of the MappedWrite.
MaxMappedChunk == 2

\* style.rs CMD_INDENT is out of src/; lib.rs tests show six spaces.
CMD_INDENT == <<" ", " ", " ", " ", " ", " ">>

\* A plausible slip: a line that is only its line end is indented too.
IndentLine_AlsoBlank(line) == IF line = <<>> THEN line ELSE CMD_INDENT \o line

\* The closure of format_stream_writer and of start_stream: indent a line
\* unless it is empty or a lone newline.
IndentLine(line) ==
    IF line = <<>> \/ line = <<NL>> THEN line ELSE CMD_INDENT \o line

\* The mapping functions SpecMapped draws from: the indent closure, the
\* closure of test_mapped_write (line.repeat(2)) and one that prefixes every
\* record, the empty one included.
MappingFns == {"indent", "repeat2", "mark"}

ApplyMappingFn(f, line) ==
    CASE f = "indent"  -> IndentLine(line)
      [] f = "repeat2" -> line \o line
      [] f = "mark"    -> <<">">> \o line
      [] OTHER         -> line

\* A plausible slip: the buffer is cloned instead of taken, so it is never cleared.
MapAndWriteCurrentBuffer_KeepsBuffer(m, innerOk) ==
    IF m.inner = "Some"
    THEN [m |-> m, called |-> <<m.buffer>>,
          wrote |-> IF innerOk THEN <<ApplyMappingFn(m.mapping_fn, m.buffer)>> ELSE <<>>,
          ok |-> innerOk \/ ApplyMappingFn(m.mapping_fn, m.buffer) = <<>>]
    ELSE [m |-> m, called |-> <<>>, wrote |-> <<>>, ok |-> TRUE]

\* MappedWrite::map_and_write_current_buffer.  The result names the new
\* MappedWrite, the arguments mapping_fn was called with, the buffers handed
\* to the inner sink's write_all (one per call) and whether the call returned
\* Ok: write_all of an empty buffer makes no write call and so cannot fail.
MapAndWriteCurrentBuffer(m, innerOk) ==
    IF m.inner = "Some"
    THEN [m |-> [m EXCEPT !.buffer = <<>>],
          called |-> <<m.buffer>>,
          wrote |-> IF innerOk THEN <<ApplyMappingFn(m.mapping_fn, m.buffer)>> ELSE <<>>,
          ok |-> innerOk \/ ApplyMappingFn(m.mapping_fn, m.buffer) = <<>>]
    ELSE [m |-> m, called |-> <<>>, wrote |-> <<>>, ok |-> TRUE]

\* impl Write for MappedWrite: write(buf), byte by byte from index i.  `acc`
\* carries the MappedWrite, the calls, the bytes forwarded and the number of
\* bytes of buf pushed; a failed forward returns early (the `?`).
RECURSIVE MappedWriteLoop(_, _, _, _)
MappedWriteLoop(acc, buf, i, innerOk) ==
    IF i > Len(buf) THEN acc
    ELSE LET pushed == [acc.m EXCEPT !.buffer = Append(@, buf[i])]
         IN  IF buf[i] = pushed.marker_byte
             THEN LET r == MapAndWriteCurrentBuffer(pushed, innerOk)
                      next == [m |-> r.m, called |-> acc.called \o r.called,
                               wrote |-> acc.wrote \o r.wrote, ok |-> r.ok,
                               pushed |-> i]
                  IN  IF r.ok THEN MappedWriteLoop(next, buf, i + 1, innerOk) ELSE next
             ELSE MappedWriteLoop([acc EXCEPT !.m = pushed, !.pushed = i], buf, i + 1, innerOk)

\* A plausible slip: each write is mapped and forwarded at once, without
\* waiting for the marker byte.
MappedWriteWrite_Unbuffered(m, buf, innerOk) ==
    [m |-> m, called |-> <<buf>>, wrote |-> <<ApplyMappingFn(m.mapping_fn, buf)>>,
     ok |-> TRUE, pushed |-> Len(buf)]

MappedWriteWrite(m, buf, innerOk) ==
    MappedWriteLoop([m |-> m, called |-> <<>>, wrote |-> <<>>, ok |-> TRUE, pushed |-> 0],
                    buf, 1, innerOk)

\* impl Drop for MappedWrite: the result of the forward is ignored.
MappedWriteDrop(m, innerOk) == MapAndWriteCurrentBuffer(m, innerOk)

\* MappedWrite::unwrap, with the drop of the consumed value at its end.
MappedWriteUnwrap(m, innerOk) ==
    LET first == IF m.inner = "Some" THEN MapAndWriteCurrentBuffer(m, innerOk)
                 ELSE [m |-> m, called |-> <<>>, wrote |-> <<>>, ok |-> TRUE]
        taken == [first.m EXCEPT !.inner = "None"]
        last  == MappedWriteDrop(taken, innerOk)
    IN  [m |-> last.m, called |-> first.called \o last.called,
         wrote |-> first.wrote \o last.wrote, ok |-> TRUE]

(***************************************************************************)
(* SpecMapped: writes to one MappedWrite, then its release                  *)
(***************************************************************************)
MChunks == SeqsUpTo({"a", NL}, MaxMappedChunk)

\* mapped(w, b'\n', f) / line_mapped(w, f)
InitMapped ==
    /\ IdleParagraph
    /\ IdlePrint
    /\ IdleMpsc
    /\ IdleGlobal
    /\ IdleAnsi
    /\ IdleGlobalHandle
    /\ \E f \in MappingFns :
           mw = [inner |-> "Some", marker_byte |-> NL, buffer |-> <<>>, mapping_fn |-> f]
    /\ mwLife = "live"
    /\ mwInnerOk = TRUE
    /\ mwOut = <<>>
    /\ mwCalls = <<>>
    /\ mwInput = <<>>

MWrite ==
    \E chunk \in MChunks :
        LET r == MappedWriteWrite(mw, chunk, mwInnerOk)
        IN  /\ mwLife = "live"
            /\ Len(mwInput) + Len(chunk) <= MaxMappedInput
            /\ mw' = r.m
            /\ mwCalls' = mwCalls \o r.called
            /\ mwOut' = mwOut \o Flatten(r.wrote)
            /\ mwInput' = mwInput \o Take(chunk, IF r.ok THEN Len(chunk) ELSE r.pushed)
            /\ UNCHANGED <<mwLife, mwInnerOk, piwVars, anVars, ghVars, prVars, mpVars, glVars>>

\* flush forwards to the inner sink's flush and nothing else.
MFlush ==
    /\ mwLife = "live"
    /\ UNCHANGED vars

MUnwrap ==
    LET r == MappedWriteUnwrap(mw, mwInnerOk)
    IN  /\ mwLife = "live"
        /\ mw' = r.m
        /\ mwCalls' = mwCalls \o r.called
        /\ mwOut' = mwOut \o Flatten(r.wrote)
        /\ mwLife' = "unwrapped"
        /\ UNCHANGED <<mwInput, mwInnerOk, piwVars, anVars, ghVars, prVars, mpVars, glVars>>

MDrop ==
    LET r == MappedWriteDrop(mw, mwInnerOk)
    IN  /\ mwLife = "live"
        /\ mw' = r.m
        /\ mwCalls' = mwCalls \o r.called
        /\ mwOut' = mwOut \o Flatten(r.wrote)
        /\ mwLife' = "dropped"
        /\ UNCHANGED <<mwInput, mwInnerOk, piwVars, anVars, ghVars, prVars, mpVars, glVars>>

NextMapped == MWrite \/ MFlush \/ MUnwrap \/ MDrop

SpecMapped == InitMapped /\ [][NextMapped]_vars

RECURSIVE NonEmptyOnly(_)
NonEmptyOnly(ss) ==
    IF ss = <<>> THEN <<>>
    ELSE (IF Head(ss) = <<>> THEN <<>> ELSE <<Head(ss)>>) \o NonEmptyOnly(Tail(ss))

RECURSIVE MapAll(_, _)
MapAll(f, ss) ==
    IF ss = <<>> THEN <<>> ELSE ApplyMappingFn(f, Head(ss)) \o MapAll(f, Tail(ss))

\* C5: at every moment the non-empty arguments of the transform, followed by
\* the buffered remainder, are the records of the input split after each
\* marker, in order; after unwrap (with its trailing drop) or drop nothing is
\* buffered, so every record and the non-empty remainder went through the
\* transform exactly once, and the sink holds their transforms in order.
C5_EachRecordMappedOnce ==
    mwLife \in {"live", "unwrapped", "dropped"} =>
        /\ NonEmptyOnly(mwCalls) \o (IF mw.buffer = <<>> THEN <<>> ELSE <<mw.buffer>>)
               = SplitInclusive(mwInput, mw.marker_byte, <<>>)
        /\ mwLife # "live" => mw.buffer = <<>>
        /\ mwOut = MapAll(mw.mapping_fn, mwCalls)

\* C5 witness: two complete records and an unterminated remainder were
\* written and the writer was unwrapped.
C5_Witness ==
    /\ mwLife = "unwrapped"
    /\ mwInput = <<"a", NL, NL, "a">>
    /\ Len(mwCalls) >= 3

(***************************************************************************)
(* lib.rs: the Print typestate machine                                      *)
(***************************************************************************)
\* Most method calls on one handle.
MaxOps == 6
\* Most timeouts of the timer worker's wait within one timer.
MaxTicks == 1

HeaderTexts == {<<"a">>, <<"a", NL, NL>>}
BulletTexts == {<<"b">>}
AnnounceTexts == {<<"w">>}
TimerLabels == {<<"t">>}
CancelReasons == {<<"r">>}
StreamChunks == {<<"s">>, <<NL>>, <<"s", NL>>}

\* The state type each transition returns.
\* A plausible slip: without_header builds the wrong state.
WithoutHeaderReturns_SubBullet == "SubBullet"
WithoutHeaderReturns == "Bullet"
BulletBulletReturns == "SubBullet"
BulletH2Returns == "Bullet"
\* A plausible slip: the section's done hands the sink back.
SubBulletDoneReturns_Returned == "Returned"
SubBulletDoneReturns == "Bullet"
StartStreamReturns == "Stream"
StartTimerReturns == "Background"
\* A plausible slip: the stream's done returns to the Bullet state.
StreamDoneReturns_Bullet == "Bullet"
StreamDoneReturns == "SubBullet"
BackgroundDoneReturns == "SubBullet"

\* A plausible slip: the Header state implements AnnounceSupportedState too.
AnnounceSupportedState_AlsoHeader(st) == st \in {"Header", "Bullet", "SubBullet"}
\* The states that implement AnnounceSupportedState.
AnnounceSupportedState(st) == st \in {"Bullet", "SubBullet"}

\* The sink rejects every write: it was closed or has broken.
SinkClosed == prCap = "closed"

\* The record of one method call on the handle: the method, the state type it
\* was called on, the state type it returned, the length of the sink before
\* the call, for a header or a raw write the text, and whether a write to the
\* sink failed during the call.
Call(op, to, arg, failed) ==
    Append(hist, [op |-> op, from |-> pstate, to |-> to, at |-> Len(pw.inner),
                  arg |-> arg, failed |-> failed])
CalledWith(op, to, arg) == Call(op, to, arg, FALSE)
Called(op, to) == CalledWith(op, to, <<>>)

\* Instant::now(): the clock moves on with every call made on the handle.
InstantNow == Len(hist)

\* Print.started of the Background handle: start_timer hands Instant::now()
\* to sub_start_timer, which stores it as Some(started).
StartTimerStarted == Some(InstantNow)

\* The expect(..) on the result of each write and flush of an output
\* function: the call goes on to `to` when the sink took the bytes and panics
\* when the write failed.
Expect(to) == IF SinkClosed THEN "Panicked" ELSE to
\* The sink after an output function that wrote w: a closed sink took nothing.
Sunk(w) == IF SinkClosed THEN pw ELSE w
\* The record of a call of an output function, which writes at once.
Output(op, to, arg) == Call(op, Expect(to), arg, SinkClosed)

\* Print::new(io) over an empty sink
Init ==
    /\ IdleParagraph
    /\ IdleMapped
    /\ IdleMpsc
    /\ IdleGlobal
    /\ IdleAnsi
    /\ IdleGlobalHandle
    /\ pstate = "Header"
    /\ started = None
    /\ pw = ParagraphInspectWriteNew(<<>>)
    /\ prCap \in {"all", "one"}
    /\ sw = NoMappedWrite
    /\ tm = NoTimer
    /\ hist = <<>>

\* The methods of the impl blocks of Print<S>, by the state type S; a handle
\* that was consumed, returned or released has none.
Methods(st) ==
    (CASE st = "Header" -> {"h1", "h2", "without_header"}
       [] st = "Bullet" -> {"bullet", "h2", "done"}
       [] st = "SubBullet" -> {"sub_bullet", "start_stream", "start_timer", "done"}
       [] st = "Stream" -> {"write", "flush", "done"}
       [] st = "Background" -> {"done", "cancel"}
       [] OTHER -> {})
    \cup (IF AnnounceSupportedState(st) THEN {"warning", "important", "error"} ELSE {})

\* The handle has the method, and the run has calls left.
CanCall(op) == op \in Methods(pstate) /\ Len(hist) < MaxOps
\* A value can be released in any state that still holds the handle.
CanDrop == pstate \in {"Header", "Bullet", "SubBullet", "Stream", "Background"} /\ Len(hist) < MaxOps

\* Print<Header>::h1
HeaderH1 ==
    \E s \in HeaderTexts :
        /\ pstate = "Header" /\ CanCall("h1")
        /\ pw' = Sunk(write_h1(pw, s, prCap))
        /\ started' = Some(InstantNow)
        /\ pstate' = Expect(WithoutHeaderReturns)
        /\ hist' = Output("h1", WithoutHeaderReturns, s)
        /\ UNCHANGED <<prCap, sw, tm, piwVars, mwVars, anVars, ghVars, mpVars, glVars>>

\* Print<Header>::h2
HeaderH2 ==
    \E s \in HeaderTexts :
        /\ pstate = "Header" /\ CanCall("h2")
        /\ pw' = Sunk(write_h2(pw, s, prCap))
        /\ started' = Some(InstantNow)
        /\ pstate' = Expect(WithoutHeaderReturns)
        /\ hist' = Output("h2", WithoutHeaderReturns, s)
        /\ UNCHANGED <<prCap, sw, tm, piwVars, mwVars, anVars, ghVars, mpVars, glVars>>

\* Print<Header>::without_header
HeaderWithoutHeader ==
    /\ pstate = "Header" /\ CanCall("without_header")
    /\ started' = Some(InstantNow)
    /\ pstate' = WithoutHeaderReturns
    /\ hist' = Called("without_header", WithoutHeaderReturns)
    /\ UNCHANGED <<pw, prCap, sw, tm, piwVars, mwVars, anVars, ghVars, mpVars, glVars>>

\* Print<Bullet>::bullet
BulletBullet ==
    \E s \in BulletTexts :
        /\ pstate = "Bullet" /\ CanCall("bullet")
        /\ pw' = Sunk(write_bullet(pw, s, prCap))
        /\ pstate' = Expect(BulletBulletReturns)
        /\ hist' = Output("bullet", BulletBulletReturns, <<>>)
        /\ UNCHANGED <<started, prCap, sw, tm, piwVars, mwVars, anVars, ghVars, mpVars, glVars>>

\* Print<Bullet>::h2
BulletH2 ==
    \E s \in HeaderTexts :
        /\ pstate = "Bullet" /\ CanCall("h2")
        /\ pw' = Sunk(write_h2(pw, s, prCap))
        /\ pstate' = Expect(BulletH2Returns)
        /\ hist' = Output("h2", BulletH2Returns, s)
        /\ UNCHANGED <<started, prCap, sw, tm, piwVars, mwVars, anVars, ghVars, mpVars, glVars>>

\* Print<Bullet>::done: the terminal done, which returns the raw sink
BulletDone ==
    /\ pstate = "Bullet" /\ CanCall("done")
    /\ pw' = Sunk(write_all_done(pw, started, prCap))
    /\ pstate' = Expect("Returned")
    /\ hist' = Output("done", "Returned", <<>>)
    /\ UNCHANGED <<started, prCap, sw, tm, piwVars, mwVars, anVars, ghVars, mpVars, glVars>>

\* Print<SubBullet>::sub_bullet
SubBulletSubBullet ==
    \E s \in BulletTexts :
        /\ pstate = "SubBullet" /\ CanCall("sub_bullet")
        /\ pw' = Sunk(write_sub_bullet(pw, s, prCap))
        /\ pstate' = Expect("SubBullet")
        /\ hist' = Output("sub_bullet", "SubBullet", <<>>)
        /\ UNCHANGED <<started, prCap, sw, tm, piwVars, mwVars, anVars, ghVars, mpVars, glVars>>

\* Print<SubBullet>::done
SubBulletDone ==
    /\ pstate = "SubBullet" /\ CanCall("done")
    /\ pstate' = SubBulletDoneReturns
    /\ hist' = Called("done", SubBulletDoneReturns)
    /\ UNCHANGED <<pw, started, prCap, sw, tm, piwVars, mwVars, anVars, ghVars, mpVars, glVars>>

\* Print<SubBullet>::start_stream
SubBulletStartStream ==
    \E s \in BulletTexts :
        /\ pstate = "SubBullet" /\ CanCall("start_stream")
        /\ pw' = Sunk(writeln_now(write_sub_bullet(pw, s, prCap), <<>>, prCap))
        /\ sw' = IF SinkClosed THEN sw
                 ELSE [inner |-> "Some", marker_byte |-> NL, buffer |-> <<>>,
                       mapping_fn |-> "indent"]
        /\ pstate' = Expect(StartStreamReturns)
        /\ hist' = Output("start_stream", StartStreamReturns, <<>>)
        /\ UNCHANGED <<started, prCap, tm, piwVars, mwVars, anVars, ghVars, mpVars, glVars>>

\* impl Write for Print<Stream>: write.  A failed forward is returned to the
\* caller as the Err of the write call.
StreamWrite ==
    \E chunk \in StreamChunks :
        LET r == MappedWriteWrite(sw, chunk, ~SinkClosed)
        IN  /\ pstate = "Stream" /\ CanCall("write")
            /\ sw' = r.m
            /\ pw' = Sunk(WriteAllEach(pw, r.wrote, prCap))
            /\ hist' = Call("write", "Stream", chunk, ~r.ok)
            /\ UNCHANGED <<pstate, started, prCap, tm, piwVars, mwVars, anVars, ghVars, mpVars, glVars>>

\* impl Write for Print<Stream>: flush, which MappedWrite passes to the sink
\* without writing its buffer
StreamFlush ==
    /\ pstate = "Stream" /\ CanCall("flush")
    /\ hist' = Called("flush", "Stream")
    /\ UNCHANGED <<pstate, started, pw, prCap, sw, tm, piwVars, mwVars, anVars, ghVars, mpVars, glVars>>

\* Print<Stream>::done: unwrap drops the result of forwarding the buffered
\* remainder; the writes that follow are checked with expect.
StreamDone ==
    LET r == MappedWriteUnwrap(sw, ~SinkClosed)
        unwrapped == WriteAllEach(pw, r.wrote, prCap)
        spaced == IF ~unwrapped.was_paragraph
                  THEN writeln_now(unwrapped, <<>>, prCap) ELSE unwrapped
    IN  /\ pstate = "Stream" /\ CanCall("done")
        /\ pw' = Sunk(write_sub_bullet(spaced, <<"D", "o", "n", "e", " ">> \o details(human), prCap))
        /\ sw' = NoMappedWrite
        /\ pstate' = Expect(StreamDoneReturns)
        /\ hist' = Output("done", StreamDoneReturns, <<>>)
        /\ UNCHANGED <<started, prCap, tm, piwVars, mwVars, anVars, ghVars, mpVars, glVars>>

\* Print<SubBullet>::start_timer: the label is written without a newline,
\* then print_interval starts the worker, which owns the sink.
SubBulletStartTimer ==
    \E s \in TimerLabels :
        /\ pstate = "SubBullet" /\ CanCall("start_timer")
        /\ pw' = Sunk(WriteAll(pw, sub_bullet_prefix(s), prCap))
        /\ tm' = IF SinkClosed THEN tm
                 ELSE [pc |-> "start", stop |-> FALSE, join |-> "none", detail |-> <<>>,
                       ticks |-> 0, from |-> Len(pw.inner), label |-> s, failed |-> FALSE]
        /\ started' = StartTimerStarted
        /\ pstate' = Expect(StartTimerReturns)
        /\ hist' = Output("start_timer", StartTimerReturns, <<>>)
        /\ UNCHANGED <<prCap, sw, piwVars, mwVars, anVars, ghVars, mpVars, glVars>>

\* The worker of print_interval: the start mark
TimerWorkerStart ==
    /\ tm.pc = "start" /\ ~tm.failed
    /\ pw' = WriteAll(pw, TimerStartMark, prCap)
    /\ tm' = [tm EXCEPT !.pc = "tick"]
    /\ UNCHANGED <<pstate, started, prCap, sw, hist, piwVars, mwVars, anVars, ghVars, mpVars, glVars>>

\* The worker: one progress mark, then it waits for the stop signal
TimerWorkerTick ==
    /\ tm.pc = "tick" /\ ~tm.failed
    /\ pw' = WriteAll(pw, TimerTickMark, prCap)
    /\ tm' = [tm EXCEPT !.pc = "wait"]
    /\ UNCHANGED <<pstate, started, prCap, sw, hist, piwVars, mwVars, anVars, ghVars, mpVars, glVars>>

\* The worker: the interval passed without a stop signal
TimerWorkerTimeout ==
    /\ tm.pc = "wait" /\ ~tm.failed /\ ~tm.stop /\ tm.ticks < MaxTicks
    /\ tm' = [tm EXCEPT !.pc = "tick", !.ticks = @ + 1]
    /\ UNCHANGED <<pstate, started, pw, prCap, sw, hist, piwVars, mwVars, anVars, ghVars, mpVars, glVars>>

\* A plausible slip: the worker sleeps through its intervals and never polls
\* the stop signal.
TimerWorkerStopped_NeverPolls ==
    /\ tm.pc = "wait" /\ ~tm.failed /\ tm.stop /\ tm.ticks < 0
    /\ UNCHANGED vars

\* The worker: the stop signal arrived; the end mark is written and the sink handed back
TimerWorkerStopped ==
    /\ tm.pc = "wait" /\ ~tm.failed /\ tm.stop
    /\ pw' = WriteAll(pw, TimerEndMark, prCap)
    /\ tm' = [tm EXCEPT !.pc = "finished"]
    /\ UNCHANGED <<pstate, started, prCap, sw, hist, piwVars, mwVars, anVars, ghVars, mpVars, glVars>>

\* The worker fails: it panics where it stands and writes nothing more.
TimerWorkerFail ==
    /\ tm.pc \in {"start", "tick", "wait"} /\ ~tm.failed
    /\ tm' = [tm EXCEPT !.failed = TRUE]
    /\ UNCHANGED <<pstate, started, pw, prCap, sw, hist, piwVars, mwVars, anVars, ghVars, mpVars, glVars>>

\* PrintGuard::stop, which joins the worker: it gives back the sink when the
\* worker has ended, the worker's panic when it has failed, and until then
\* it does not return.
StopResult(timer) ==
    IF timer.failed THEN "Err"
    ELSE IF timer.pc = "finished" THEN "Ok"
    ELSE "blocked"

\* A plausible slip: the worker's failure is dropped and the call goes on.
AfterStop_SwallowsFailure(result, io, detail, cap) ==
    [pw |-> writeln_now(io, detail, cap), to |-> BackgroundDoneReturns]

\* done and cancel from the match on stop()'s result: the detail is written
\* to the sink stop() gave back, or the worker's panic is resumed.
AfterStop(result, io, detail, cap) ==
    IF result = "Err" \/ cap = "closed"
    THEN [pw |-> io, to |-> "Panicked"]
    ELSE [pw |-> writeln_now(io, detail, cap), to |-> BackgroundDoneReturns]

\* A plausible slip: the detail is written without waiting for stop().
StopAwaited_Not(result) == TRUE

\* done and cancel go on only with what stop() returns: the sink they write
\* the detail to comes out of it.
StopAwaited(result) == result # "blocked"

\* Print<Background>::done up to the join: the stop signal is sent
BackgroundDone ==
    /\ pstate = "Background" /\ tm.join = "none" /\ CanCall("done")
    /\ tm' = [tm EXCEPT !.stop = TRUE, !.join = "done", !.detail = details(human)]
    /\ hist' = Called("done", "pending")
    /\ UNCHANGED <<pstate, started, pw, prCap, sw, piwVars, mwVars, anVars, ghVars, mpVars, glVars>>

\* Print<Background>::cancel up to the join
BackgroundCancel ==
    \E why \in CancelReasons :
        /\ pstate = "Background" /\ tm.join = "none" /\ CanCall("cancel")
        /\ tm' = [tm EXCEPT !.stop = TRUE, !.join = "cancel", !.detail = details(why)]
        /\ hist' = Called("cancel", "pending")
        /\ UNCHANGED <<pstate, started, pw, prCap, sw, piwVars, mwVars, anVars, ghVars, mpVars, glVars>>

\* The handle is dropped in the Background state: the guard's drop up to the join
BackgroundDrop ==
    /\ pstate = "Background" /\ tm.join = "none" /\ CanDrop
    /\ tm' = [tm EXCEPT !.stop = TRUE, !.join = "drop", !.detail = TimerErrorText]
    /\ hist' = Called("drop", "pending")
    /\ UNCHANGED <<pstate, started, pw, prCap, sw, piwVars, mwVars, anVars, ghVars, mpVars, glVars>>

\* Print<Background>::done and cancel after the join: the detail is written
\* with writeln_now and a SubBullet handle is returned.
BackgroundJoined ==
    /\ pstate = "Background" /\ tm.join \in {"done", "cancel"}
    /\ StopAwaited(StopResult(tm))
    /\ LET after == AfterStop(StopResult(tm), pw, tm.detail, prCap)
       IN  /\ pw' = after.pw
           /\ pstate' = after.to
           /\ hist' = [hist EXCEPT ![Len(hist)].to = after.to,
                                   ![Len(hist)].failed = SinkClosed /\ StopResult(tm) = "Ok"]
    /\ tm' = [tm EXCEPT !.pc = "joined"]
    /\ UNCHANGED <<started, prCap, sw, piwVars, mwVars, anVars, ghVars, mpVars, glVars>>

\* The guard's drop after the join: the error text and a newline are written.
GuardDropJoined ==
    /\ pstate = "Background" /\ tm.join = "drop"
    /\ StopResult(tm) # "blocked"
    /\ LET to == IF StopResult(tm) = "Ok" THEN "Dropped" ELSE "Panicked"
       IN  /\ pw' = IF StopResult(tm) = "Ok" THEN Writeln(pw, tm.detail, prCap) ELSE pw
           /\ pstate' = to
           /\ hist' = [hist EXCEPT ![Len(hist)].to = to]
    /\ tm' = [tm EXCEPT !.pc = "joined"]
    /\ UNCHANGED <<started, prCap, sw, piwVars, mwVars, anVars, ghVars, mpVars, glVars>>

\* Print::warning
AnnounceWarning ==
    \E s \in AnnounceTexts :
        /\ CanCall("warning")
        /\ pw' = Sunk(write_warning(pw, s, prCap))
        /\ pstate' = Expect(pstate)
        /\ hist' = Output("warning", pstate, <<>>)
        /\ UNCHANGED <<started, prCap, sw, tm, piwVars, mwVars, anVars, ghVars, mpVars, glVars>>

\* Print::important
AnnounceImportant ==
    \E s \in AnnounceTexts :
        /\ CanCall("important")
        /\ pw' = Sunk(write_important(pw, s, prCap))
        /\ pstate' = Expect(pstate)
        /\ hist' = Output("important", pstate, <<>>)
        /\ UNCHANGED <<started, prCap, sw, tm, piwVars, mwVars, anVars, ghVars, mpVars, glVars>>

\* Print::error: takes the handle by value and returns nothing
AnnounceError ==
    \E s \in AnnounceTexts :
        /\ CanCall("error")
        /\ pw' = Sunk(write_error(pw, s, prCap))
        /\ pstate' = Expect("Consumed")
        /\ hist' = Output("error", "Consumed", <<>>)
        /\ UNCHANGED <<started, prCap, sw, tm, piwVars, mwVars, anVars, ghVars, mpVars, glVars>>

\* The handle is dropped in a state that owns the writer directly.
HandleDrop ==
    /\ pstate \in {"Header", "Bullet", "SubBullet"} /\ CanDrop
    /\ pstate' = "Dropped"
    /\ hist' = Called("drop", "Dropped")
    /\ UNCHANGED <<started, pw, prCap, sw, tm, piwVars, mwVars, anVars, ghVars, mpVars, glVars>>

\* The handle is dropped in the Stream state: impl Drop for MappedWrite runs
\* and drops the result of forwarding the buffered remainder.
StreamDrop ==
    LET r == MappedWriteDrop(sw, ~SinkClosed)
    IN  /\ pstate = "Stream" /\ CanDrop
        /\ pw' = Sunk(WriteAllEach(pw, r.wrote, prCap))
        /\ sw' = r.m
        /\ pstate' = "Dropped"
        /\ hist' = Call("drop", "Dropped", <<>>, ~r.ok)
        /\ UNCHANGED <<started, prCap, tm, piwVars, mwVars, anVars, ghVars, mpVars, glVars>>

Next ==
    \/ HeaderH1 \/ HeaderH2 \/ HeaderWithoutHeader
    \/ BulletBullet \/ BulletH2 \/ BulletDone
    \/ SubBulletSubBullet \/ SubBulletDone \/ SubBulletStartStream \/ SubBulletStartTimer
    \/ StreamWrite \/ StreamFlush \/ StreamDone \/ StreamDrop
    \/ TimerWorkerStart \/ TimerWorkerTick \/ TimerWorkerTimeout \/ TimerWorkerStopped
    \/ TimerWorkerFail
    \/ BackgroundDone \/ BackgroundCancel \/ BackgroundDrop \/ BackgroundJoined \/ GuardDropJoined
    \/ AnnounceWarning \/ AnnounceImportant \/ AnnounceError
    \/ HandleDrop

Spec == Init /\ [][Next]_vars

\* The worker thread and the thread that waits in stop() are scheduled: a
\* step of the worker that stays possible is taken, and so is the return of
\* a join whose worker has ended.  Nothing obliges the caller to make a call,
\* the interval to pass without a signal, or the worker to fail.
TimerFairness ==
    /\ WF_vars(TimerWorkerStart)
    /\ WF_vars(TimerWorkerTick)
    /\ WF_vars(TimerWorkerStopped)
    /\ WF_vars(BackgroundJoined)
    /\ WF_vars(GuardDropJoined)

\* The calls that lead to a timer and end it, and the worker's steps.
NextTimer ==
    \/ HeaderWithoutHeader \/ BulletBullet \/ SubBulletStartTimer
    \/ TimerWorkerStart \/ TimerWorkerTick \/ TimerWorkerTimeout \/ TimerWorkerStopped
    \/ TimerWorkerFail
    \/ BackgroundDone \/ BackgroundCancel \/ BackgroundDrop \/ BackgroundJoined \/ GuardDropJoined

SpecTimerLive == Init /\ [][NextTimer]_vars /\ TimerFairness

\* The sink closes or breaks under the handle: from now on every write to it
\* returns an error.  While a timer worker owns the sink this is left out.
SinkCloses ==
    /\ prCap \in {"all", "one"}
    /\ \/ pstate \in {"Header", "Bullet", "SubBullet", "Stream"}
       \/ pstate = "Background" /\ tm.pc = "finished" /\ tm.join \in {"done", "cancel"}
    /\ prCap' = "closed"
    /\ UNCHANGED <<pstate, started, pw, sw, tm, hist, piwVars, mwVars, anVars, ghVars, mpVars, glVars>>

NextSinkFault == Next \/ SinkCloses

\* The Print state machine over a sink that may close at any moment.
SpecSinkFault == Init /\ [][NextSinkFault]_vars

(***************************************************************************)
(* SpecHeaders: h1, h2 and h3 on a writer with any prior content           *)
(***************************************************************************)
\* Longest prior content of the sink in SpecHeaders.
MaxPrior == 4
\* Most header emissions in one run of SpecHeaders.
MaxHeaders == 2

PriorContents == SeqsUpTo({"a", NL}, MaxPrior)

\* A paragraph writer through which the prior content was written.  In this
\* specification piwWhole is the sink before the latest emission, piwBase
\* the writer's state before it and the header line it wrote, piwChunks the
\* number of emissions.
InitHeaders ==
    /\ IdleMapped
    /\ IdlePrint
    /\ IdleMpsc
    /\ IdleGlobal
    /\ IdleAnsi
    /\ IdleGlobalHandle
    /\ \E prior \in PriorContents :
           piw = WriteAll(ParagraphInspectWriteNew(<<>>), prior, "all")
    /\ piwBase = [before |-> <<FALSE, 0>>, line |-> <<>>]
    /\ piwWhole = <<>>
    /\ piwChunks = 0

\* write::h1
EmitH1 ==
    \E s \in HeaderTexts : \E cap \in {"all", "one"} :
        /\ piwChunks < MaxHeaders
        /\ piw' = write_h1(piw, s, cap)
        /\ piwBase' = [before |-> ParagraphState(piw), line |-> <<"#", " ">> \o Trim(s)]
        /\ piwWhole' = piw.inner
        /\ piwChunks' = piwChunks + 1
        /\ UNCHANGED <<mwVars, anVars, ghVars, prVars, mpVars, glVars>>

\* write::h2
EmitH2 ==
    \E s \in HeaderTexts : \E cap \in {"all", "one"} :
        /\ piwChunks < MaxHeaders
        /\ piw' = write_h2(piw, s, cap)
        /\ piwBase' = [before |-> ParagraphState(piw), line |-> <<"#", "#", " ">> \o Trim(s)]
        /\ piwWhole' = piw.inner
        /\ piwChunks' = piwChunks + 1
        /\ UNCHANGED <<mwVars, anVars, ghVars, prVars, mpVars, glVars>>

\* write::h3
EmitH3 ==
    \E s \in HeaderTexts : \E cap \in {"all", "one"} :
        /\ piwChunks < MaxHeaders
        /\ piw' = write_h3(piw, s, cap)
        /\ piwBase' = [before |-> ParagraphState(piw), line |-> <<"#", "#", "#", " ">> \o Trim(s)]
        /\ piwWhole' = piw.inner
        /\ piwChunks' = piwChunks + 1
        /\ UNCHANGED <<mwVars, anVars, ghVars, prVars, mpVars, glVars>>

NextHeaders == EmitH1 \/ EmitH2 \/ EmitH3

SpecHeaders == InitHeaders /\ [][NextHeaders]_vars

(***************************************************************************)
(* SpecAnsi: nested calls of wrap_ansi_escape_each_line on any text         *)
(***************************************************************************)
\* Most pieces (a byte or one escape sequence) of the text coloured.
MaxPieces == 3
\* Most nested calls of wrap_ansi_escape_each_line.
MaxDepth == 3

\* enum ANSI with to_str
ANSI == {DIM, RED, YELLOW, BOLD_CYAN, BOLD_UNDERLINE_CYAN, BOLD_PURPLE}

\* The texts coloured: bytes, line ends, and colour and reset sequences.
BodyPieces == {<<"a">>, <<"m">>, <<NL>>, RESET, RED}
Bodies == {Flatten(ps) : ps \in SeqsUpTo(BodyPieces, MaxPieces)}

InitAnsi ==
    /\ IdleParagraph
    /\ IdleMapped
    /\ IdlePrint
    /\ IdleMpsc
    /\ IdleGlobal
    /\ IdleGlobalHandle
    /\ anBody \in Bodies
    /\ anOut = anBody
    /\ anColors = <<>>

\* One more call of wrap_ansi_escape_each_line, on the result of the last.
WrapAnsiEscapeEachLine ==
    \E ansi \in ANSI :
        /\ Len(anColors) < MaxDepth
        /\ anOut' = wrap_ansi_escape_each_line(ansi, anOut)
        /\ anColors' = Append(anColors, ansi)
        /\ UNCHANGED <<anBody, piwVars, mwVars, prVars, mpVars, glVars, ghVars>>

NextAnsi == WrapAnsiEscapeEachLine

SpecAnsi == InitAnsi /\ [][NextAnsi]_vars

(***************************************************************************)
(* Properties of the Print state machine                                    *)
(***************************************************************************)
OutputSince(n) == SubSeq(pw.inner, n + 1, Len(pw.inner))
LastCall == hist[Len(hist)]
IsHeaderCall(h) == h.op \in {"h1", "h2"}

\* The lines of the sink, colour removed, written from call i up to the end of call j
LinesOfCalls(i, j) ==
    LET end == IF j < Len(hist) THEN hist[j + 1].at ELSE Len(pw.inner)
    IN  SplitNewline(strip_ansi(SubSeq(pw.inner, hist[i].at + 1, end)), <<>>)

\* C6: two header emissions performed one directly after the other leave
\* exactly two header lines in the output, with exactly one line between
\* them, and that line is empty, whatever blank lines the texts end with.
C6_OneBlankLineBetweenHeaders ==
    \A i \in 1..(Len(hist) - 1) :
        IsHeaderCall(hist[i]) /\ IsHeaderCall(hist[i + 1]) =>
            LET lines == LinesOfCalls(i, i + 1)
                hs == {k \in DOMAIN lines : StartsWith(lines[k], <<"#">>)}
            IN  /\ Cardinality(hs) = 2
                /\ \E k \in hs : k + 2 \in hs /\ lines[k + 1] = <<>>
C6_Witness ==
    /\ Len(hist) >= 3
    /\ hist[1].op = "h1" /\ hist[2].op = "h2"
    /\ strip_ansi(SubSeq(pw.inner, 1, hist[3].at))
           = <<NL, "#", " ", "a", NL, NL, "#", "#", " ", "a", NL, NL>>
    /\ hist[1].arg = <<"a", NL, NL>> /\ hist[2].arg = <<"a", NL, NL>>
    /\ prCap = "one"

\* C7 as stated: a handle in the Header state has the methods h1, h2, h3 and
\* without_header and no other, and every call made there returns Bullet.
C7_HeaderHasH1H2H3 ==
    /\ pstate = "Header" => Methods(pstate) = {"h1", "h2", "h3", "without_header"}
    /\ \A i \in DOMAIN hist :
           hist[i].from = "Header" /\ hist[i].op # "drop" =>
               hist[i].op \in {"h1", "h2", "h3", "without_header"} /\ hist[i].to = "Bullet"
\* C7 amended: a handle in the Header state has the methods h1, h2 and
\* without_header and no other (no h3, bullet, sub-bullet, stream, timer,
\* announcement or done), and each call of them returns a handle in the
\* Bullet state.
C7_HeaderTransitions ==
    /\ pstate = "Header" => Methods(pstate) = {"h1", "h2", "without_header"}
    /\ \A i \in DOMAIN hist :
           hist[i].from = "Header" /\ hist[i].op # "drop" =>
               hist[i].op \in {"h1", "h2", "without_header"} /\ hist[i].to = "Bullet"
C7_Witness ==
    /\ Len(hist) >= 2
    /\ hist[1].op = "without_header" /\ hist[1].from = "Header"
    /\ hist[2].op = "bullet" /\ pw.inner = <<"-", " ", "b", NL>>

RECURSIVE StreamInput(_)
StreamInput(i) == IF i > Len(hist) THEN <<>> ELSE hist[i].arg \o StreamInput(i + 1)
\* The call that put the handle in the state it is in
LastStart(op) == CHOOSE i \in DOMAIN hist : hist[i].op = op /\ \A j \in DOMAIN hist : hist[j].op = op => j <= i
\* n progress marks
RECURSIVE Marks(_)
Marks(n) == IF n = 0 THEN <<>> ELSE TimerTickMark \o Marks(n - 1)

C9_WitnessBackground ==
    /\ Len(hist) = 4 /\ pstate = "SubBullet"
    /\ hist[3].op = "start_timer" /\ hist[4].op = "cancel" /\ tm.ticks = MaxTicks

\* C4: when a Background handle was released without done or cancel, the
\* worker has stopped and the timer line is the label, the progress marks
\* and then the literal text (Error), which ends the line; and no timer line
\* whose handle is gone or has moved on is left without a closing parenthesis.
C4_DroppedTimerEndsWithError ==
    /\ tm.join = "drop" /\ pstate # "Background" /\ ~tm.failed =>
           /\ pstate = "Dropped" /\ tm.stop /\ tm.pc = "joined"
           /\ strip_ansi(OutputSince(tm.from))
                  = <<" ", " ", "-", " ", "t", " ", ".">>
                    \o [k \in 1..(tm.ticks + 1) |-> "."]
                    \o <<".", " ", "(", "E", "r", "r", "o", "r", ")", NL>>
    /\ tm.pc # "none" /\ pstate # "Background" /\ ~tm.failed =>
           /\ tm.pc = "joined"
           /\ \E k \in 1..Len(pw.inner) :
                  /\ k > tm.from /\ pw.inner[k] = ")" /\ pw.inner[k + 1] = NL
                  /\ \A j \in (tm.from + 1)..k : pw.inner[j] # NL
C4_Witness ==
    /\ tm.join = "drop" /\ pstate = "Dropped" /\ tm.ticks = MaxTicks
    /\ Len(OutputSince(tm.from)) > 0

\* The byte string holds the pattern somewhere.
Occurs(bytes, pat) ==
    \E k \in 1..(Len(bytes) - Len(pat) + 1) : SubSeq(bytes, k, k + Len(pat) - 1) = pat

\* The whole line of a timer that ended with this detail.
TimerLine(timer) ==
    sub_bullet_prefix(timer.label) \o TimerStartMark \o Marks(timer.ticks + 1)
        \o TimerEndMark \o timer.detail \o <<NL>>

\* C19: from the call of done or cancel until the worker has ended, the call
\* has not returned and no parenthesis is on the timer line.  Once the call
\* has returned, the stop signal was sent, the worker has ended, the sink
\* holds from the label on the marks, then the parenthesized detail and the
\* line end, and whatever is written later holds no progress mark.
C19_DetailAfterEveryMark ==
    tm.join \in {"done", "cancel"} /\ ~tm.failed =>
        /\ tm.stop
        /\ tm.pc # "joined" =>
              /\ pstate = "Background" /\ LastCall.to = "pending"
              /\ ~Occurs(OutputSince(tm.from), <<"(">>)
        /\ tm.pc = "joined" =>
              /\ pstate # "Background"
              /\ \E i \in DOMAIN hist :
                    /\ hist[i].op = tm.join /\ hist[i].from = "Background"
                    /\ hist[i].to = "SubBullet"
              /\ StartsWith(OutputSince(tm.from), TimerLine(tm))
              /\ strip_ansi(Take(OutputSince(tm.from), Len(TimerLine(tm)))) =
                    <<" ", " ", "-", " ">> \o tm.label \o <<" ", ".">>
                      \o [k \in 1..(tm.ticks + 1) |-> "."] \o <<".", " ">>
                      \o tm.detail \o <<NL>>
              /\ ~Occurs(Drop(OutputSince(tm.from), Len(TimerLine(tm))), DIM)

\* A timer that ticked as often as it may was cancelled, and another call
\* has written to the sink since.
C19_Witness ==
    /\ tm.join = "cancel" /\ tm.pc = "joined" /\ ~tm.failed
    /\ tm.ticks = MaxTicks
    /\ Len(OutputSince(tm.from)) > Len(TimerLine(tm))

\* C20: when the worker has failed, done and cancel end with the worker's
\* panic: no SubBullet handle comes back, no method can be called any more,
\* and nothing was written after what the worker had written, so no
\* parenthesis is on the timer line.
C20_WorkerFailureReraised ==
    tm.failed /\ tm.join \in {"done", "cancel"} /\ tm.pc = "joined" =>
        /\ pstate = "Panicked" /\ Methods(pstate) = {}
        /\ LastCall.op = tm.join /\ LastCall.to = "Panicked"
        /\ ~Occurs(OutputSince(tm.from), <<"(">>)
        /\ \E n \in 0..(tm.ticks + 1) :
              OutputSince(tm.from) \in
                 {sub_bullet_prefix(tm.label),
                  sub_bullet_prefix(tm.label) \o TimerStartMark \o Marks(n)}

\* The worker failed after its first marks and done was then called.
C20_Witness ==
    /\ tm.failed /\ tm.join = "done" /\ tm.pc = "joined"
    /\ pstate = "Panicked"
    /\ Occurs(OutputSince(tm.from), TimerTickMark)

(***************************************************************************)
(* util.rs: mpsc_stream_to_output, and write.rs: sub_stream_with            *)
(***************************************************************************)
\* Most write calls the producing closure makes on its handles.
MaxMpscWrites == 3

\* The handles the producing closure is given: the MpscWriter itself for the
\* internal call, the two boxed writers for stream_with.
GivenHandles(mode) == IF mode = "internal" THEN {"arg"} ELSE {"stdout", "stderr"}
\* The handles made before the producing closure runs: the Sender of the
\* scope, the MpscWriter passed to the closure and, in stream_with, a
\* format_stream_writer over a clone of it in each box.
MadeHandles(mode) == {"send", "arg"} \cup GivenHandles(mode)
\* The bytes the producing closure writes through a handle, each write call
\* with a byte of its own so that the order of the writes shows in the sink.
HandleBytes(h) ==
    IF h = "stdout" THEN <<"o1", "o2", "o3", "o4", "o5">>
    ELSE IF h = "stderr" THEN <<"e1", "e2", "e3", "e4", "e5">>
    ELSE <<"m1", "m2", "m3", "m4", "m5">>

\* What the producing closure may write through a handle in one call
MpscChunks(h) ==
    LET c == HandleBytes(h)[Len(mpSent[h]) + 1]
    IN  {<<c>>, <<NL>>, <<c, NL>>}

\* A plausible slip: a message overtakes the messages already in the channel.
ChannelSend_Overtaking(chan, msgs) == msgs \o chan

\* Sender::send: the messages join the channel behind those already in it.
ChannelSend(chan, msgs) == chan \o msgs

\* The type of the closure's result: a given handle is an MpscWriter in the
\* internal call and a Box<dyn Write + Send + Sync> in stream_with.
TypeOfResult(mode, ret) ==
    IF ret = "unit" THEN "()"
    ELSE IF mode = "internal" THEN "MpscWriter" ELSE "Box<dyn Write + Send + Sync>"

\* The assert_ne! of mpsc_stream_to_output fails.
LeakDetected(mode, ret) == TypeOfResult(mode, ret) = "MpscWriter"

\* The messages one handle sends for the buffers its MappedWrite forwards:
\* write_all makes no write call for an empty buffer.
Messages(wrote) == NonEmptyOnly(wrote)

\* The handles in hs are released, in the order of the sequence: a boxed
\* writer's MappedWrite forwards its buffer.
RECURSIVE ReleaseMessages(_, _)
ReleaseMessages(hs, buf) ==
    IF hs = <<>> THEN <<>>
    ELSE (IF Head(hs) \in DOMAIN buf
          THEN Messages(MappedWriteDrop(buf[Head(hs)], TRUE).wrote) ELSE <<>>)
         \o ReleaseMessages(Tail(hs), buf)

\* The handles the closure still holds, but for `kept`, in the order they are
\* released when the closure ends: parameters in reverse order.
HeldInReleaseOrder(kept) ==
    SelectSeq(<<"stderr", "stdout", "arg">>,
              LAMBDA h : h \in mpHandles /\ h \in GivenHandles(mpMode) /\ h # kept)

\* The write calls the producing closure has made
WritesMade ==
    IF mpMode = "internal" THEN Len(mpSent["arg"])
    ELSE Len(mpSent["stdout"]) + Len(mpSent["stderr"])

InitMpsc ==
    /\ IdleParagraph
    /\ IdleMapped
    /\ IdlePrint
    /\ IdleMpsc
    /\ IdleGlobal
    /\ IdleAnsi
    /\ IdleGlobalHandle

\* mpsc_stream_to_output is called directly: the channel is made, the
\* consumer thread spawned and the producing closure started.
MpStartInternal ==
    /\ mpPc = "idle"
    /\ mpMode' = "internal"
    /\ mpPc' = "stream"
    /\ mpCons' = "recv"
    /\ mpHandles' = MadeHandles("internal")
    /\ mpBuf' = <<>>
    /\ mpSent' = [h \in GivenHandles("internal") |-> <<>>]
    /\ UNCHANGED <<mpChan, mpOut, mpRet, piwVars, mwVars, anVars, ghVars, prVars, glVars>>

\* sub_stream_with up to the start of the producing closure: the sub-bullet
\* and an empty line are written, then mpsc_stream_to_output starts.
MpStartStreamWith ==
    /\ mpPc = "idle"
    /\ mpMode' = "stream_with"
    /\ mpPc' = "stream"
    /\ mpCons' = "recv"
    /\ mpHandles' = MadeHandles("stream_with")
    /\ mpBuf' = [h \in GivenHandles("stream_with") |->
                    [inner |-> "Some", marker_byte |-> NL, buffer |-> <<>>,
                     mapping_fn |-> "indent"]]
    /\ mpSent' = [h \in GivenHandles("stream_with") |-> <<>>]
    /\ mpOut' = WritelnEmpty(write_sub_bullet(mpOut, <<"x">>, "all"), "all")
    /\ UNCHANGED <<mpChan, mpRet, piwVars, mwVars, anVars, ghVars, prVars, glVars>>

\* The producing closure writes a chunk through one of its handles:
\* MpscWriter::write sends the chunk as one message; a boxed writer sends
\* each line its MappedWrite completes.
MpWrite ==
    \E h \in GivenHandles(mpMode) \cap mpHandles :
        \E chunk \in MpscChunks(h) :
            /\ mpPc = "stream"
            /\ WritesMade < MaxMpscWrites
            /\ IF h \in DOMAIN mpBuf
               THEN LET r == MappedWriteWrite(mpBuf[h], chunk, TRUE)
                    IN  /\ mpBuf' = [mpBuf EXCEPT ![h] = r.m]
                        /\ mpChan' = ChannelSend(mpChan, Messages(r.wrote))
               ELSE /\ mpChan' = ChannelSend(mpChan, <<chunk>>)
                    /\ UNCHANGED mpBuf
            /\ mpSent' = [mpSent EXCEPT ![h] = Append(@, chunk)]
            /\ UNCHANGED <<mpMode, mpPc, mpCons, mpHandles, mpOut, mpRet,
                           piwVars, mwVars, anVars, ghVars, prVars, glVars>>

\* The producing closure releases one of its handles before it ends.
MpDropHandle ==
    \E h \in GivenHandles(mpMode) \cap mpHandles :
        /\ mpPc = "stream"
        /\ mpChan' = ChannelSend(mpChan, ReleaseMessages(<<h>>, mpBuf))
        /\ mpHandles' = mpHandles \ {h}
        /\ UNCHANGED <<mpMode, mpPc, mpCons, mpBuf, mpOut, mpRet, mpSent,
                       piwVars, mwVars, anVars, ghVars, prVars, glVars>>

\* The producing closure returns: a unit value or one of the handles it still
\* holds.  The other handles it holds are released, and in stream_with the
\* MpscWriter of the wrapping closure too.
MpReturn ==
    \E ret \in {"unit"} \cup (GivenHandles(mpMode) \cap mpHandles) :
        /\ mpPc = "stream"
        /\ mpRet' = ret
        /\ mpChan' = ChannelSend(mpChan, ReleaseMessages(HeldInReleaseOrder(ret), mpBuf))
        /\ mpHandles' = {"send"} \cup (IF ret = "unit" THEN {} ELSE {ret})
        /\ mpPc' = "check"
        /\ UNCHANGED <<mpMode, mpCons, mpBuf, mpOut, mpSent, piwVars, mwVars, anVars, ghVars, prVars, glVars>>

\* The producing closure panics: the unwinding releases the handles it
\* holds and then the Sender of the scope.
MpPanic ==
    /\ mpPc = "stream"
    /\ mpRet' = "panic"
    /\ mpChan' = ChannelSend(mpChan, ReleaseMessages(HeldInReleaseOrder("none"), mpBuf))
    /\ mpHandles' = {}
    /\ mpPc' = "unwinding"
    /\ UNCHANGED <<mpMode, mpCons, mpBuf, mpOut, mpSent, piwVars, mwVars, anVars, ghVars, prVars, glVars>>

\* assert_ne!(TypeId::of::<MpscWriter>(), out.type_id()): on failure the
\* panic unwinds the scope's closure, which releases `out` and `send`.
MpCheck ==
    /\ mpPc = "check"
    /\ IF LeakDetected(mpMode, mpRet)
       THEN mpPc' = "unwinding" /\ mpHandles' = {}
       ELSE mpPc' = "close" /\ UNCHANGED mpHandles
    /\ UNCHANGED <<mpMode, mpCons, mpBuf, mpChan, mpOut, mpRet, mpSent,
                   piwVars, mwVars, anVars, ghVars, prVars, glVars>>

\* drop(send); the scope then waits for the consumer thread.
MpClose ==
    /\ mpPc = "close"
    /\ mpHandles' = mpHandles \ {"send"}
    /\ mpPc' = "join"
    /\ UNCHANGED <<mpMode, mpCons, mpBuf, mpChan, mpOut, mpRet, mpSent,
                   piwVars, mwVars, anVars, ghVars, prVars, glVars>>

\* The consumer receives the oldest message and writes it to the sink.
MpConsumerRecv ==
    /\ mpCons = "recv" /\ mpChan # <<>>
    /\ mpOut' = WriteAll(mpOut, Head(mpChan), "all")
    /\ mpChan' = Tail(mpChan)
    /\ UNCHANGED <<mpMode, mpPc, mpCons, mpHandles, mpBuf, mpRet, mpSent,
                   piwVars, mwVars, anVars, ghVars, prVars, glVars>>

\* A plausible slip: the receiver gives up as soon as it finds no message.
ChannelClosed_WhenEmpty(chan, handles) == chan = <<>>

\* The iteration over the Receiver ends: no message is left and no Sender
\* is alive.
ChannelClosed(chan, handles) == chan = <<>> /\ handles = {}

\* The channel is empty and every Sender is gone: the loop over the receiver
\* ends.  In stream_with the consumer then ends the paragraph and writes the
\* Done sub-bullet.
MpConsumerFinish ==
    /\ mpCons = "recv" /\ ChannelClosed(mpChan, mpHandles)
    /\ mpOut' = IF mpMode = "stream_with"
                THEN write_sub_bullet(
                         IF ~mpOut.was_paragraph THEN WritelnEmpty(mpOut, "all") ELSE mpOut,
                         <<"D", "o", "n", "e", " ">> \o details(human), "all")
                ELSE mpOut
    /\ mpCons' = "done"
    /\ UNCHANGED <<mpMode, mpPc, mpHandles, mpBuf, mpChan, mpRet, mpSent,
                   piwVars, mwVars, anVars, ghVars, prVars, glVars>>

\* A plausible slip: the scope swallows the panic it caught.
MpJoin_AbsorbsPanic ==
    /\ mpPc \in {"join", "unwinding"} /\ mpCons = "done"
    /\ mpPc' = "returned"
    /\ UNCHANGED <<mpMode, mpCons, mpHandles, mpBuf, mpChan, mpOut, mpRet, mpSent,
                   piwVars, mwVars, anVars, ghVars, prVars, glVars>>

\* thread::scope has joined the consumer: the call returns the closure's
\* result, or resumes the panic it caught.
MpJoin ==
    /\ mpPc \in {"join", "unwinding"} /\ mpCons = "done"
    /\ mpPc' = IF mpPc = "join" THEN "returned" ELSE "panicked"
    /\ UNCHANGED <<mpMode, mpCons, mpHandles, mpBuf, mpChan, mpOut, mpRet, mpSent,
                   piwVars, mwVars, anVars, ghVars, prVars, glVars>>

NextMpsc ==
    \/ MpStartInternal \/ MpStartStreamWith
    \/ MpWrite \/ MpDropHandle \/ MpReturn \/ MpPanic
    \/ MpCheck \/ MpClose
    \/ MpConsumerRecv \/ MpConsumerFinish \/ MpJoin

SpecMpsc == InitMpsc /\ [][NextMpsc]_vars

\* The call is stuck for ever: the calling thread waits for the consumer, the
\* consumer waits on an empty channel, and the only Sender left is in the
\* value the call is about to return.
MpscBlockedForever ==
    /\ mpPc = "join" /\ mpCons = "recv" /\ mpChan = <<>>
    /\ mpHandles # {} /\ ~ENABLED NextMpsc

\* C3: when the producing closure returns one of the writer handles it was
\* given, the call faults: it never returns normally and it never blocks for
\* ever.  This is stated for the internal call and for stream_with alike.
C3_LeakedHandleFaults ==
    mpRet \in {"arg", "stdout", "stderr"} =>
        /\ mpPc # "returned"
        /\ ~MpscBlockedForever

(***************************************************************************)
(* global.rs: the process-wide writer, set_writer and with_locked_writer   *)
(***************************************************************************)
Threads == {"t1", "t2"}

\* How many calls the threads make in all.
MaxGlobalOps == 4

\* The types of the sinks callers pass in.
SinkTypes == {"Vec<u8>", "GlobalWriter"}

\* What a thread writes through GlobalWriter in one call.
GlobalChunks == {<<"g", NL>>, <<NL>>}

\* Box::new(ParagraphInspectWrite::new(new_writer)); id tells one sink object
\* from another.
BoxedWriter(id, type) == [id |-> id, type |-> type, w |-> ParagraphInspectWriteNew(<<>>)]

NoBox == [id |-> -1, type |-> "none", w |-> ParagraphInspectWriteNew(<<>>)]
NoWrite == [buf |-> <<>>, sent |-> 0, target |-> -1]
NoLocal == [new_id |-> -1, new_type |-> "none", old_writer |-> NoBox,
            f_panic |-> "Ok", new_writer |-> NoBox, wr |-> NoWrite]
NoSeen == [before |-> NoBox, bodyPanic |-> "none", written |-> <<>>, own |-> <<>>,
           afterPanic |-> FALSE]
NoResult == [outcome |-> "none", payload |-> "none", sink |-> <<>>]

\* The result of a call that panicked with this message.
Panicked(payload) == [outcome |-> "panicked", payload |-> payload, sink |-> <<>>]

\* The result of a call that the library itself ended with a panic!.
Faulted(payload) == [outcome |-> "fault", payload |-> payload, sink |-> <<>>]

\* A plausible slip: the marker sink is let through.
TypeCheckPasses_Always(type) == TRUE

\* type_id(&new_writer) == TypeId::of::<GlobalWriter>() panics.
TypeCheckPasses(type) == type # "GlobalWriter"

\* A plausible slip: try_lock always gets the lock.
TryLockFails_Never == FALSE

\* WITH_WRITER_GLOBAL_LOCK.try_lock() fails while any thread holds the lock.
TryLockFails == glScopeLock # "free"

\* A plausible slip: the original sink is put back only when the body returned.
RestoredWriter_OnlyOnReturn(old_writer, current, f_panic) ==
    IF f_panic # "Ok" THEN current ELSE old_writer

\* A plausible slip: the second mem::replace is left out.
RestoredWriter_KeepsOverride(old_writer, current, f_panic) == current

\* What the second mem::replace leaves in WRITER.
RestoredWriter(old_writer, current, f_panic) == old_writer

\* (new_writer as Box<dyn Any>).downcast::<ParagraphInspectWrite<W>>()
DowncastOk(new_writer, type) == new_writer.type = type

InitGlobal ==
    /\ IdleParagraph
    /\ IdleMapped
    /\ IdlePrint
    /\ IdleMpsc
    /\ IdleAnsi
    /\ IdleGlobalHandle
    /\ glWriter = BoxedWriter(0, "Stderr")
    /\ glScopeLock = "free"
    /\ glFlag = [t \in Threads |-> FALSE]
    /\ glPc = [t \in Threads |-> "idle"]
    /\ glLocal = [t \in Threads |-> NoLocal]
    /\ glSeen = [t \in Threads |-> NoSeen]
    /\ glResult = [t \in Threads |-> NoResult]
    /\ glOps = 0
    /\ glNextId = 1

\* The thread's override is in WRITER: from its swap-in to its restoration.
InScope(t) == glPc[t] \in {"body", "restore"}

\* The thread is inside GlobalWriter::write, holding the lock of WRITER.
Writing(t) == glLocal[t].wr # NoWrite

\* A plausible slip: WRITER is reached without its lock.
WriterLockAvailable_Always == TRUE

\* WRITER.lock() returns only when no thread holds the mutex; swap-ins,
\* restorations and replacements hold it within their one step.
WriterLockAvailable == \A u \in Threads : ~Writing(u)

\* GlobalWriter::write up to the inner write: WRITER is locked and
\* ParagraphInspectWrite::write updates the paragraph state.
GlobalWrite(t) ==
    /\ glPc[t] \in {"idle", "body"} /\ ~Writing(t) /\ glOps < MaxGlobalOps
    /\ WriterLockAvailable
    /\ \E buf \in GlobalChunks :
          /\ glWriter' = [glWriter EXCEPT !.w = ParagraphInspectWriteWrite(@, buf, 0)]
          /\ glLocal' = [glLocal EXCEPT ![t].wr =
                            [buf |-> buf, sent |-> 0, target |-> glWriter.id]]
    /\ glOps' = glOps + 1
    /\ UNCHANGED <<glScopeLock, glFlag, glPc, glSeen, glResult, glNextId,
                   piwVars, mwVars, anVars, ghVars, prVars, mpVars>>

\* The inner write, a byte at a time, into the box in WRITER; the lock is
\* released when the write returns.  glSeen notes the bytes against every
\* call whose scope is open, and as its own against the call whose body
\* writes them.
GlobalWriteByte(t) ==
    /\ Writing(t)
    /\ LET wr == glLocal[t].wr
           byte == <<wr.buf[wr.sent + 1]>>
       IN  /\ glWriter' = [glWriter EXCEPT !.w.inner = @ \o byte]
           /\ glSeen' = [u \in Threads |->
                            IF InScope(u)
                            THEN [glSeen[u] EXCEPT !.written = @ \o byte,
                                                   !.own = IF u = t THEN @ \o byte ELSE @]
                            ELSE glSeen[u]]
           /\ glLocal' = [glLocal EXCEPT ![t].wr =
                             IF wr.sent + 1 = Len(wr.buf) THEN NoWrite
                             ELSE [wr EXCEPT !.sent = @ + 1]]
    /\ UNCHANGED <<glScopeLock, glFlag, glPc, glResult, glOps, glNextId,
                   piwVars, mwVars, anVars, ghVars, prVars, mpVars>>

\* set_writer up to the try_lock: a GlobalWriter sink and a held scope lock
\* both panic before anything is changed.
SetWriterCall(t) ==
    /\ glPc[t] = "idle" /\ ~Writing(t) /\ glOps < MaxGlobalOps
    /\ glOps' = glOps + 1
    /\ \E type \in SinkTypes :
          IF ~TypeCheckPasses(type) \/ TryLockFails
          THEN /\ glResult' = [glResult EXCEPT ![t] = Faulted(IF ~TypeCheckPasses(type)
                                             THEN "Cannot set the global writer to GlobalWriter"
                                             ELSE "Cannot call set_writer inside of with_locked_writer")]
               /\ glLocal' = [glLocal EXCEPT ![t] = [NoLocal EXCEPT !.new_type = type]]
               /\ UNCHANGED <<glScopeLock, glPc, glNextId>>
          ELSE /\ glScopeLock' = t
               /\ glPc' = [glPc EXCEPT ![t] = "set"]
               /\ glLocal' = [glLocal EXCEPT ![t] =
                                 [NoLocal EXCEPT !.new_id = glNextId, !.new_type = type]]
               /\ glNextId' = glNextId + 1
               /\ UNCHANGED glResult
    /\ UNCHANGED <<glWriter, glFlag, glSeen, piwVars, mwVars, anVars, ghVars, prVars, mpVars>>

\* set_writer from the replacement on: the new box goes in, the lock is
\* released on return.
SetWriterReplace(t) ==
    /\ glPc[t] = "set"
    /\ WriterLockAvailable
    /\ glWriter' = BoxedWriter(glLocal[t].new_id, glLocal[t].new_type)
    /\ glScopeLock' = "free"
    /\ glPc' = [glPc EXCEPT ![t] = "idle"]
    /\ glResult' = [glResult EXCEPT ![t] = [NoResult EXCEPT !.outcome = "set"]]
    /\ UNCHANGED <<glFlag, glLocal, glSeen, glOps, glNextId,
                   piwVars, mwVars, anVars, ghVars, prVars, mpVars>>

\* The closure's panic is caught by catch_unwind: the call goes on to put the
\* original sink back.
BodyEnds(t, payload) ==
    /\ glPc' = [glPc EXCEPT ![t] = "restore"]
    /\ glLocal' = [glLocal EXCEPT ![t].f_panic = payload]
    /\ glSeen' = [glSeen EXCEPT ![t].bodyPanic = IF payload = "Ok" THEN "none" ELSE payload]

\* with_locked_writer up to the scope lock: the type check, then
\* ReentrantGuard::new, which panics when the thread's flag is already set.
WlwCall(t) ==
    /\ glPc[t] = "idle" /\ ~Writing(t) /\ glOps < MaxGlobalOps
    /\ glOps' = glOps + 1
    /\ \E type \in SinkTypes :
          IF ~TypeCheckPasses(type) \/ glFlag[t]
          THEN /\ glResult' = [glResult EXCEPT ![t] = Faulted(IF ~TypeCheckPasses(type)
                                             THEN "Cannot set the global writer to GlobalWriter"
                                             ELSE "Cannot call this function recursively!")]
               /\ glLocal' = [glLocal EXCEPT ![t] = [NoLocal EXCEPT !.new_type = type]]
               /\ UNCHANGED <<glFlag, glPc, glSeen, glNextId>>
          ELSE /\ glFlag' = [glFlag EXCEPT ![t] = TRUE]
               /\ glPc' = [glPc EXCEPT ![t] = "lock"]
               /\ glLocal' = [glLocal EXCEPT ![t] =
                                 [NoLocal EXCEPT !.new_id = glNextId, !.new_type = type]]
               /\ glSeen' = [glSeen EXCEPT ![t] =
                                [NoSeen EXCEPT !.afterPanic =
                                    \E u \in Threads : glResult[u].outcome = "panicked"]]
               /\ glResult' = [glResult EXCEPT ![t] = NoResult]
               /\ glNextId' = glNextId + 1
    /\ UNCHANGED <<glWriter, glScopeLock, piwVars, mwVars, anVars, ghVars, prVars, mpVars>>

\* A plausible slip: lock() never waits.
LockAvailable_Always(holder) == TRUE

\* Mutex::lock returns only when no thread holds the mutex.
LockAvailable(holder) == holder = "free"

\* WITH_WRITER_GLOBAL_LOCK.lock(): blocks until the lock is free.
\* On a poisoned lock lock() returns an error and the unwrap panics; the
\* unwinding drops the reentrancy guard.
WlwLock(t) ==
    /\ glPc[t] = "lock"
    /\ \/ /\ LockAvailable(glScopeLock)
          /\ glScopeLock' = t
          /\ glPc' = [glPc EXCEPT ![t] = "swap"]
          /\ UNCHANGED <<glFlag, glResult>>
       \/ /\ glScopeLock = "poisoned"
          /\ glResult' = [glResult EXCEPT ![t] = Faulted("PoisonError")]
          /\ glFlag' = [glFlag EXCEPT ![t] = FALSE]
          /\ glPc' = [glPc EXCEPT ![t] = "idle"]
          /\ UNCHANGED glScopeLock
    /\ UNCHANGED <<glWriter, glLocal, glSeen, glOps, glNextId,
                   piwVars, mwVars, anVars, ghVars, prVars, mpVars>>

\* The first mem::replace: the override goes into WRITER wrapped in a fresh
\* ParagraphInspectWrite, the box that was there is kept in old_writer.
WlwSwap(t) ==
    /\ glPc[t] = "swap"
    /\ WriterLockAvailable
    /\ glWriter' = BoxedWriter(glLocal[t].new_id, glLocal[t].new_type)
    /\ glLocal' = [glLocal EXCEPT ![t].old_writer = glWriter]
    /\ glSeen' = [glSeen EXCEPT ![t].before = glWriter]
    /\ glPc' = [glPc EXCEPT ![t] = "body"]
    /\ UNCHANGED <<glScopeLock, glFlag, glResult, glOps, glNextId,
                   piwVars, mwVars, anVars, ghVars, prVars, mpVars>>

\* The closure returns.
BodyReturn(t) ==
    /\ glPc[t] = "body" /\ ~Writing(t)
    /\ BodyEnds(t, "Ok")
    /\ UNCHANGED <<glWriter, glScopeLock, glFlag, glResult, glOps, glNextId,
                   piwVars, mwVars, anVars, ghVars, prVars, mpVars>>

\* The closure panics of its own accord, as a failed test assertion does.
BodyPanic(t) ==
    /\ glPc[t] = "body" /\ ~Writing(t)
    /\ BodyEnds(t, "assertion failed")
    /\ UNCHANGED <<glWriter, glScopeLock, glFlag, glResult, glOps, glNextId,
                   piwVars, mwVars, anVars, ghVars, prVars, mpVars>>

\* A plausible slip: the guard is built before the check, so the panic drops
\* it and the flag is cleared.
ReentrantGuardNew_DropsOnPanic(flag) ==
    [panics |-> flag, flag |-> ~flag]

\* ReentrantGuard::new: panics when the flag is set, before a guard exists,
\* so nothing resets the flag; otherwise sets it.
ReentrantGuardNew(flag) ==
    [panics |-> flag, flag |-> TRUE]

\* The closure calls with_locked_writer again: ReentrantGuard::new finds the
\* flag set and panics, before any lock is taken.  Were it not to panic, the
\* thread would wait for the scope lock it holds itself.
BodyNestedCall(t) ==
    /\ glPc[t] = "body" /\ ~Writing(t) /\ glOps < MaxGlobalOps
    /\ glOps' = glOps + 1
    /\ glFlag' = [glFlag EXCEPT ![t] = ReentrantGuardNew(glFlag[t]).flag]
    /\ IF ReentrantGuardNew(glFlag[t]).panics
       THEN BodyEnds(t, "Cannot call this function recursively!")
       ELSE /\ glPc' = [glPc EXCEPT ![t] = "nested_lock"]
            /\ UNCHANGED <<glLocal, glSeen>>
    /\ UNCHANGED <<glWriter, glScopeLock, glResult, glNextId,
                   piwVars, mwVars, anVars, ghVars, prVars, mpVars>>

\* The closure calls set_writer: the try_lock fails on the scope lock its own
\* thread holds, so set_writer panics and WRITER is not touched.
\* Were the try_lock to succeed, set_writer would replace the box in WRITER
\* and return to the body.
BodySetWriter(t) ==
    /\ glPc[t] = "body" /\ ~Writing(t) /\ glOps < MaxGlobalOps
    /\ glOps' = glOps + 1
    /\ IF TryLockFails
       THEN /\ BodyEnds(t, "Cannot call set_writer inside of with_locked_writer")
            /\ UNCHANGED <<glWriter, glNextId>>
       ELSE /\ WriterLockAvailable
            /\ glWriter' = BoxedWriter(glNextId, "Vec<u8>")
            /\ glNextId' = glNextId + 1
            /\ UNCHANGED <<glPc, glLocal, glSeen>>
    /\ UNCHANGED <<glScopeLock, glFlag, glResult,
                   piwVars, mwVars, anVars, ghVars, prVars, mpVars>>

\* The second mem::replace: old_writer goes back into WRITER, the box that
\* was there comes out as new_writer.
WlwRestore(t) ==
    /\ glPc[t] = "restore"
    /\ WriterLockAvailable
    /\ glWriter' = RestoredWriter(glLocal[t].old_writer, glWriter, glLocal[t].f_panic)
    /\ glLocal' = [glLocal EXCEPT ![t].new_writer = glWriter]
    /\ glPc' = [glPc EXCEPT ![t] = "check"]
    /\ UNCHANGED <<glScopeLock, glFlag, glSeen, glResult, glOps, glNextId,
                   piwVars, mwVars, anVars, ghVars, prVars, mpVars>>

\* A plausible slip: the body's panic is not caught inside the block, so the
\* lock guard is dropped by the unwinding.
ScopeLockAfterCall_PoisonedByBodyPanic(f_panic, downcast_ok) ==
    IF f_panic # "Ok" \/ ~downcast_ok THEN "poisoned" ELSE "free"

\* WITH_WRITER_GLOBAL_LOCK once its guard is dropped: a guard dropped by a
\* panic's unwinding poisons the mutex, and the only panic raised inside the
\* block is the failed downcast.
ScopeLockAfterCall(f_panic, downcast_ok) ==
    IF ~downcast_ok THEN "poisoned" ELSE "free"

\* The downcast, the end of the block (both guards are dropped) and the
\* unwrap_or_else: the sink is returned, or the caught panic is resumed.
WlwFinish(t) ==
    /\ glPc[t] = "check"
    /\ glResult' = [glResult EXCEPT ![t] =
          IF ~DowncastOk(glLocal[t].new_writer, glLocal[t].new_type)
          THEN Faulted("Could not downcast to original type. Writer was mutated unexpectedly")
          ELSE IF glLocal[t].f_panic # "Ok"
               THEN Panicked(glLocal[t].f_panic)
               ELSE [outcome |-> "returned", payload |-> "none",
                     sink |-> glLocal[t].new_writer.w.inner]]
    /\ glScopeLock' = ScopeLockAfterCall(glLocal[t].f_panic,
                                         DowncastOk(glLocal[t].new_writer, glLocal[t].new_type))
    /\ glFlag' = [glFlag EXCEPT ![t] = FALSE]
    /\ glPc' = [glPc EXCEPT ![t] = "idle"]
    /\ UNCHANGED <<glWriter, glLocal, glSeen, glOps, glNextId,
                   piwVars, mwVars, anVars, ghVars, prVars, mpVars>>

NextGlobal ==
    \E t \in Threads :
        \/ GlobalWrite(t) \/ GlobalWriteByte(t) \/ SetWriterCall(t) \/ SetWriterReplace(t)
        \/ WlwCall(t) \/ WlwLock(t) \/ WlwSwap(t)
        \/ BodyReturn(t) \/ BodyPanic(t) \/ BodyNestedCall(t) \/ BodySetWriter(t)
        \/ WlwRestore(t) \/ WlwFinish(t)

SpecGlobal == InitGlobal /\ [][NextGlobal]_vars

\* C2: with_locked_writer puts back exactly the sink it swapped out (the same
\* object, with the bytes and the paragraph state it had) whether the body
\* returned or panicked, that sink is still the installed one when the call
\* ends, and the call ends in a panic exactly when the body panicked, with
\* the body's own panic.
C2_RestoresOriginalSink ==
    [][\A t \in Threads :
          /\ (glPc[t] = "restore" /\ glPc'[t] = "check") =>
                glWriter' = glSeen[t].before
          /\ (glPc[t] = "check" /\ glPc'[t] = "idle") =>
                /\ glWriter' = glWriter
                /\ glWriter.id = glSeen[t].before.id
                /\ glResult'[t].payload = glSeen[t].bodyPanic
                /\ glResult'[t].outcome =
                      IF glSeen[t].bodyPanic = "none" THEN "returned" ELSE "panicked"]_vars

\* A call whose body wrote to the override and then panicked has ended, and
\* the sink it found, which already held output, is installed again.
C2_Witness ==
    \E t \in DOMAIN glResult :
        /\ glResult[t].outcome = "panicked"
        /\ glPc[t] = "idle"
        /\ glLocal[t].new_writer.w.inner # <<>>
        /\ glSeen[t].before.w.inner # <<>>
        /\ glWriter = glSeen[t].before

\* The thread is past WITH_WRITER_GLOBAL_LOCK.lock() in with_locked_writer.
PastScopeLock(t) == glPc[t] \in {"swap", "body", "restore", "check"}

\* C11: two with_locked_writer calls on different threads never overlap.
\* While one thread's override is installed it is the box in WRITER, that
\* thread holds the scope lock, and no other thread has got past the lock:
\* the other call swaps its sink in only after the first has restored the
\* original and released the lock.
C11_ScopesNeverOverlap ==
    \A t \in DOMAIN glPc :
        /\ InScope(t) => /\ glWriter.id = glLocal[t].new_id
                         /\ glLocal[t].old_writer.id # glLocal[t].new_id
        /\ PastScopeLock(t) =>
              /\ glScopeLock = t
              /\ \A u \in DOMAIN glPc \ {t} : ~PastScopeLock(u) /\ glPc[u] # "set"

\* One call is in its body, has been written to, and the other thread's call
\* is waiting for the scope lock.
C11_Witness ==
    \E t \in DOMAIN glPc : \E u \in DOMAIN glPc \ {t} :
        /\ glPc[t] = "body" /\ glWriter.w.inner # <<>>
        /\ glPc[u] = "lock"

\* C12: a with_locked_writer call inside the body of another on the same
\* thread panics in ReentrantGuard::new: it takes no lock and does not wait
\* for one, WRITER is not touched, the thread's flag stays set, and the outer
\* call then restores the sink it swapped out and ends with that panic.
C12_NestedCallFaults ==
    [][\A t \in Threads :
          /\ glPc'[t] # "nested_lock"
          /\ (glPc[t] = "body"
                /\ glSeen'[t].bodyPanic = "Cannot call this function recursively!") =>
                /\ glPc'[t] = "restore"
                /\ glFlag'[t]
                /\ glScopeLock' = t /\ glScopeLock = t
                /\ glWriter' = glWriter
          /\ (glPc[t] = "restore" /\ glPc'[t] = "check"
                /\ glSeen[t].bodyPanic = "Cannot call this function recursively!") =>
                /\ glWriter' = glSeen[t].before
                /\ glFlag'[t]
          /\ (glPc[t] = "check" /\ glPc'[t] = "idle"
                /\ glSeen[t].bodyPanic = "Cannot call this function recursively!") =>
                /\ glWriter.id = glSeen[t].before.id
                /\ glResult'[t] = Panicked("Cannot call this function recursively!")]_vars

\* An outer call has ended with the nested call's panic, after its body had
\* written to the override, and the sink it found is installed again.
C12_Witness ==
    \E t \in DOMAIN glResult :
        /\ glResult[t] = Panicked("Cannot call this function recursively!")
        /\ glPc[t] = "idle" /\ ~glFlag[t]
        /\ glLocal[t].new_writer.w.inner # <<>>
        /\ glWriter = glSeen[t].before

\* No thread is inside a region guarded by WITH_WRITER_GLOBAL_LOCK.
NobodyHoldsScopeLock ==
    \A u \in DOMAIN glPc : ~PastScopeLock(u) /\ glPc[u] # "set"

C14_MarkerSinkRejected ==
    /\ [](/\ glWriter.type # "GlobalWriter"
          /\ \A t \in DOMAIN glLocal :
                glLocal[t].new_type = "GlobalWriter" =>
                    /\ glPc[t] = "idle"
                    /\ glResult[t] = Faulted("Cannot set the global writer to GlobalWriter"))
    /\ [][\A t \in Threads :
            (glOps' # glOps /\ glLocal'[t] # glLocal[t] /\ ~Writing(t)'
                /\ glLocal'[t].new_type = "GlobalWriter") =>
                /\ glWriter' = glWriter
                /\ glScopeLock' = glScopeLock
                /\ glFlag' = glFlag
                /\ glPc' = glPc]_vars

\* A thread passed GlobalWriter while the other thread's scope was open, with
\* output in the override: the call was rejected.
C14_Witness ==
    \E t \in DOMAIN glLocal : \E u \in DOMAIN glPc \ {t} :
        /\ glLocal[t].new_type = "GlobalWriter"
        /\ glResult[t].outcome = "fault"
        /\ glPc[u] = "body" /\ glWriter.w.inner # <<>>

\* C15: set_writer called inside the body of with_locked_writer panics and
\* replaces nothing.  The override is the box in WRITER at every moment of the
\* scope, the panicking call leaves WRITER as it was, and the scope then ends
\* as for any panic of the body: the sink swapped out is put back and the
\* call ends with set_writer's panic.
C15_SetWriterInsideScope ==
    /\ [](\A t \in DOMAIN glPc : InScope(t) => glWriter.id = glLocal[t].new_id)
    /\ [][\A t \in Threads :
            /\ (glPc[t] = "body" /\ glPc'[t] = "restore" /\ glSeen'[t].bodyPanic =
                    "Cannot call set_writer inside of with_locked_writer") =>
                  /\ glWriter' = glWriter
                  /\ glOps' = glOps + 1
            /\ (glPc[t] = "restore" /\ glPc'[t] = "check" /\ glSeen[t].bodyPanic =
                    "Cannot call set_writer inside of with_locked_writer") =>
                  /\ glLocal'[t].new_writer.id = glLocal[t].new_id
                  /\ glLocal'[t].new_writer.w.inner = glSeen[t].written
                  /\ glWriter' = glSeen[t].before
            /\ (glPc[t] = "check" /\ glPc'[t] = "idle" /\ glSeen[t].bodyPanic =
                    "Cannot call set_writer inside of with_locked_writer") =>
                  /\ glWriter.id = glSeen[t].before.id
                  /\ glResult'[t] =
                        Panicked("Cannot call set_writer inside of with_locked_writer")]_vars

\* A call whose body wrote output and then called set_writer has ended with
\* set_writer's panic; the sink it found is installed.
C15_Witness ==
    \E t \in DOMAIN glResult :
        /\ glResult[t] = Panicked("Cannot call set_writer inside of with_locked_writer")
        /\ glPc[t] = "idle"
        /\ glSeen[t].written # <<>>
        /\ glWriter = glSeen[t].before

\* The last n bytes of a byte string.
Suffix(bytes, n) == SubSeq(bytes, Len(bytes) - n + 1, Len(bytes))

\* C16: the box in WRITER changes only by set_writer's replacement and by the
\* swap-in and restoration of a scoped override, and never during a write
\* call; set_writer(w) leaves w, empty, in WRITER.  Every write call through
\* GlobalWriter puts all its bytes, together, at the end of the one box that
\* was in WRITER when the call locked it, which is still the box in WRITER
\* when the call returns.
C16_ReplacementAtomicForWrites ==
    [][/\ glWriter'.id # glWriter.id =>
            /\ \A u \in Threads : ~Writing(u)
            /\ \E t \in Threads :
                  \/ /\ glPc[t] = "set" /\ glPc'[t] = "idle"
                     /\ glWriter' = BoxedWriter(glLocal[t].new_id, glLocal[t].new_type)
                  \/ glPc[t] = "swap" /\ glPc'[t] = "body"
                  \/ glPc[t] = "restore" /\ glPc'[t] = "check"
       /\ \A t \in Threads :
            /\ (~Writing(t) /\ Writing(t)') => glLocal'[t].wr.target = glWriter'.id
            /\ (Writing(t) /\ ~Writing(t)') =>
                  /\ glWriter'.id = glLocal[t].wr.target
                  /\ Len(glWriter'.w.inner) >= Len(glLocal[t].wr.buf)
                  /\ Suffix(glWriter'.w.inner, Len(glLocal[t].wr.buf)) = glLocal[t].wr.buf]_vars

\* set_writer has installed a sink on one thread and a write call of two bytes
\* made after it has put both bytes into that sink, while the other thread was
\* at work too.
C16_Witness ==
    \E t \in DOMAIN glResult : \E u \in DOMAIN glPc \ {t} :
        /\ glResult[t].outcome = "set"
        /\ glWriter.id = glLocal[t].new_id
        /\ ~Writing(t)
        /\ glWriter.w.inner = <<"g", NL>>
        /\ glResult[u] # NoResult

\* The bytes of a byte string that are in the set, in their order.
Only(bytes, set) == SelectSeq(bytes, LAMBDA b : b \in set)

\* The set of the bytes a handle writes, line ends apart.
OwnBytes(h) == {HandleBytes(h)[k] : k \in DOMAIN HandleBytes(h)}

\* C17: at every moment the bytes of one handle that have reached the sink
\* are, in the sink's order, the first of the bytes written through that
\* handle, in the order of the write calls; the bytes of the other handle may
\* lie anywhere among them.
C17_PerHandleOrder ==
    \A h \in DOMAIN mpSent :
        StartsWith(Only(Flatten(mpSent[h]), OwnBytes(h)),
                   Only(mpOut.inner, OwnBytes(h)))

\* stdout was written to twice and stderr once in between, every line has
\* reached the sink, and stderr's line lies between stdout's two.
C17_Witness ==
    /\ mpMode = "stream_with" /\ mpCons = "done"
    /\ Len(mpSent["stdout"]) = 2 /\ Len(mpSent["stderr"]) = 1
    /\ Only(mpOut.inner, {"o1", "o2", "e1"}) = <<"o1", "e1", "o2">>

\* How many line ends a byte string holds.
LineEnds(bytes) == Len(Only(bytes, {NL}))

\* What sub_stream_with writes before the closure starts and what its
\* consumer writes last.
StreamWithOpening ==
    WritelnEmpty(write_sub_bullet(ParagraphInspectWriteNew(<<>>), <<"x">>, "all"), "all").inner
StreamWithDoneLine ==
    write_sub_bullet(ParagraphInspectWriteNew(<<>>),
                     <<"D", "o", "n", "e", " ">> \o details(human), "all").inner

\* C18: when the multiplexer call has returned, the consumer has ended, the
\* channel is empty and no handle is left.  Every byte written through each
\* handle is in the sink, in order; no line end was lost and none added but
\* the one the consumer writes before the Done line.  In stream_with the
\* sink starts with the sub-bullet and ends with the Done line, on a line of
\* its own.
C18_AllForwardedBeforeReturn ==
    mpPc = "returned" =>
        /\ mpCons = "done" /\ mpChan = <<>> /\ mpHandles = {}
        /\ \A h \in DOMAIN mpSent :
              Only(mpOut.inner, OwnBytes(h)) = Only(Flatten(mpSent[h]), OwnBytes(h))
        /\ LET written == Flatten(IF mpMode = "internal" THEN mpSent["arg"]
                                  ELSE mpSent["stdout"] \o mpSent["stderr"])
               fixed == IF mpMode = "internal" THEN 0
                        ELSE LineEnds(StreamWithOpening) + LineEnds(StreamWithDoneLine)
               added == LineEnds(mpOut.inner) - fixed - LineEnds(written)
           IN  /\ added \in {0, 1}
               /\ mpMode = "internal" => added = 0
        /\ mpMode = "stream_with" =>
              /\ StartsWith(mpOut.inner, StreamWithOpening)
              /\ Len(mpOut.inner) >= Len(StreamWithOpening) + Len(StreamWithDoneLine)
              /\ Suffix(mpOut.inner, Len(StreamWithDoneLine) + 1) =
                    <<NL>> \o StreamWithDoneLine

\* stream_with has returned after both handles were written to, one of them
\* left with an unfinished line that its release sent.
C18_Witness ==
    /\ mpPc = "returned" /\ mpMode = "stream_with"
    /\ Only(mpOut.inner, {"o1", "e1"}) # <<>>
    /\ mpSent["stdout"] # <<>> /\ mpSent["stderr"] # <<>>
    /\ \E h \in {"stdout", "stderr"} :
          LET all == Flatten(mpSent[h]) IN all # <<>> /\ all[Len(all)] # NL


\* The call can take no further step although the closure's panic has not
\* reached the caller.
MpscPanicStuck ==
    /\ mpRet = "panic" /\ mpPc = "unwinding" /\ ~ENABLED NextMpsc

\* C21: once the producing closure has panicked, the call never returns
\* normally and never gets stuck; when the panic reaches the caller the
\* channel is closed and empty, the consumer has ended and been joined, and
\* every byte written through a handle before the panic is in the sink, in
\* the order of the write calls.
C21_ClosurePanicReraised ==
    mpRet = "panic" =>
        /\ mpPc \in {"unwinding", "panicked"}
        /\ mpHandles = {}
        /\ ~MpscPanicStuck
        /\ mpPc = "panicked" =>
              /\ mpCons = "done" /\ mpChan = <<>>
              /\ \A h \in DOMAIN mpSent :
                    Only(mpOut.inner, OwnBytes(h)) = Only(Flatten(mpSent[h]), OwnBytes(h))

\* The closure of stream_with panicked after writing through both handles,
\* one of them holding an unfinished line, and the panic reached the caller.
C21_Witness ==
    /\ mpRet = "panic" /\ mpPc = "panicked" /\ mpMode = "stream_with"
    /\ mpSent["stdout"] # <<>> /\ mpSent["stderr"] # <<>>
    /\ \E h \in {"stdout", "stderr"} :
          LET all == Flatten(mpSent[h]) IN all # <<>> /\ all[Len(all)] # NL


\* C22: every call of an output operation of the handle (all but the raw
\* write and flush of a stream, whose error goes back to the caller) during
\* which a write to the sink failed has ended in a fault, the release of a
\* stream with a buffered remainder included.
C22_NoWriteFailureSwallowed ==
    \A i \in DOMAIN hist :
        hist[i].failed /\ hist[i].op \notin {"write", "flush"} => hist[i].to = "Panicked"


\* The line the terminal done writes, by the handle's recorded start.
DoneLine(st) ==
    IF st # None
    THEN <<"-", " ", "D", "o", "n", "e", " ", "(", "f", "i", "n", "i", "s", "h", "e", "d",
           " ", "i", "n", " ">> \o human \o <<")", NL>>
    ELSE <<"-", " ", "D", "o", "n", "e", NL>>

\* C23: when the terminal done has returned, it was called on a Bullet handle
\* and what it added to the sink is the Done line alone, with the elapsed time
\* because every Bullet handle has a recorded start; for a writer without a
\* recorded start all_done adds the plain Done line alone.  No step ever
\* changes or removes a byte already in the sink, so the sink handed back
\* holds what every operation since new() wrote, in the order of the calls.
C23_TerminalDone ==
    /\ [](/\ pstate \in {"Bullet", "Returned"} => started # None
          /\ pstate = "Returned" =>
                /\ LastCall.op = "done" /\ LastCall.from = "Bullet"
                /\ OutputSince(LastCall.at) = DoneLine(started)
                /\ \A i \in 1..(Len(hist) - 1) : hist[i].at <= hist[i + 1].at
          /\ pstate = "Bullet" =>
                write_all_done(pw, None, prCap).inner = pw.inner \o DoneLine(None))
    /\ [][StartsWith(pw'.inner, pw.inner)]_vars

\* The terminal done has returned the sink after a header, a bullet and a
\* sub-bullet were written through the handle.
C23_Witness ==
    /\ pstate = "Returned" /\ Len(hist) = 5
    /\ hist[1].op = "h1" /\ hist[2].op = "bullet" /\ hist[3].op = "sub_bullet"
    /\ hist[5].op = "done" /\ hist[5].at > hist[3].at


\* How many empty lines end a byte string: its trailing line ends, but for the
\* one that ends the last line with text; none when the last line is unfinished.
BlankLinesAtEnd(bytes) ==
    LET n == TrailingNewlineCount(bytes)
    IN  IF n = Len(bytes) THEN n ELSE IF n = 0 THEN 0 ELSE n - 1

\* C24 as stated: whatever the sink held, after an emission of h1, h2 or h3
\* the sink, colour removed, is some content that ends with exactly one empty
\* line, then the header line, then exactly one empty line; and a writer that
\* was at a paragraph boundary got no line end before the header.
C24_HeaderBetweenBlankLines ==
    piwChunks > 0 =>
        LET out == strip_ansi(piw.inner)
            tail == piwBase.line \o <<NL, NL>>
            lead == Take(out, Len(out) - Len(tail))
        IN  /\ Len(out) >= Len(tail) /\ Suffix(out, Len(tail)) = tail
            /\ BlankLinesAtEnd(lead) = 1
            /\ StartsWith(lead, strip_ansi(piwWhole))
            /\ piwBase.before[1] => lead = strip_ansi(piwWhole)


\* A byte string with the indent put before the first byte of every line
\* that has a byte other than its line end; nothing else added or removed.
RECURSIVE IndentedLines(_, _)
IndentedLines(bytes, atLineStart) ==
    IF bytes = <<>> THEN <<>>
    ELSE (IF atLineStart /\ Head(bytes) # NL THEN CMD_INDENT ELSE <<>>)
         \o <<Head(bytes)>> \o IndentedLines(Tail(bytes), Head(bytes) = NL)

\* The part of a byte string up to its last line end.
CompleteLines(bytes) == Take(bytes, Len(bytes) - Len(SplitNewline(bytes, <<>>)[Len(SplitNewline(bytes, <<>>))]))

\* C25: whatever was written to a Stream handle, in whatever chunks: while
\* the stream is open the sink holds, after the start_stream lines, the
\* finished lines of the input, each line that is more than a line end with
\* the six-space indent before it once and each empty line as it is; once
\* the stream is finished or released the sink holds the whole input in that
\* form, the unfinished last line included, followed by nothing but what
\* done itself writes.
C25_StreamLinesIndentedOnce ==
    LET i == LastStart("start_stream")
        input == StreamInput(i + 1)
        opening == <<" ", " ", "-", " ", "b", NL, NL>>
        out == OutputSince(hist[i].at)
    IN  /\ pstate = "Stream" =>
              out = opening \o IndentedLines(CompleteLines(input), TRUE)
        /\ hist # <<>> /\ LastCall.from = "Stream" /\ LastCall.op = "drop" =>
              out = opening \o IndentedLines(input, TRUE)
        /\ hist # <<>> /\ LastCall.from = "Stream" /\ LastCall.op = "done" =>
              \E sep \in {<<>>, <<NL>>} :
                  out = opening \o IndentedLines(input, TRUE) \o sep \o StreamWithDoneLine

\* A line was written in two calls, its text and then its line end, and the
\* stream was finished.
C25_Witness ==
    /\ Len(hist) = 6 /\ hist[6].op = "done" /\ hist[6].from = "Stream"
    /\ hist[4].op = "write" /\ hist[5].op = "write"
    /\ hist[4].arg = <<"s">> /\ hist[5].arg = <<NL>>


\* Whether a byte string holds the escape character.
HasEscape(bytes) == \E k \in DOMAIN bytes : bytes[k] = ESC

\* C26: a text without an escape character, coloured by one or more nested
\* calls of wrap_ansi_escape_each_line with any colours, is given back by
\* strip_ansi byte for byte, its line ends and empty lines included.
C26_StripInvertsNestedWrap ==
    ~HasEscape(anBody) /\ Len(anColors) >= 1 => strip_ansi(anOut) = anBody

\* A line followed by an empty line and a final line end, coloured three
\* times, twice with the same colour.
C26_Witness ==
    /\ anBody = <<"m", NL, NL>>
    /\ anColors = <<RED, BOLD_CYAN, RED>>
    /\ HasEscape(anOut)

\* C27 as stated: after a call of wrap_ansi_escape_each_line with any colour
\* on any text, sequences in it or not, every line of the result either has
\* no escape sequence or ends with the reset sequence.
C27_EveryColouredLineEndsWithReset ==
    Len(anColors) >= 1 =>
        \A k \in DOMAIN SplitNewline(anOut, <<>>) :
            LET line == SplitNewline(anOut, <<>>)[k]
            IN  HasEscape(line) =>
                    Len(line) >= Len(RESET) /\ Suffix(line, Len(RESET)) = RESET


\* Whether the bytes of a occur in b in their order.
RECURSIVE IsSubseq(_, _)
IsSubseq(a, b) ==
    IF a = <<>> THEN TRUE
    ELSE IF b = <<>> THEN FALSE
    ELSE IF Head(a) = Head(b) THEN IsSubseq(Tail(a), Tail(b))
    ELSE IsSubseq(a, Tail(b))

\* What C28 says of a call whose body returned, but for the content of the
\* returned sink: a write of the body goes to the override, the restoration
\* puts back the original sink as it was at the swap-in, and the call
\* returns the sink object it was given.
ScopedCallReturnsItsSink(t) ==
    /\ (glPc[t] = "body" /\ Writing(t)) => glLocal[t].wr.target = glLocal[t].new_id
    /\ (glPc[t] = "restore" /\ glPc'[t] = "check" /\ glSeen[t].bodyPanic = "none") =>
            glWriter' = glSeen[t].before
    /\ (glPc[t] = "check" /\ glPc'[t] = "idle" /\ glSeen[t].bodyPanic = "none") =>
            /\ glResult'[t].outcome = "returned"
            /\ glLocal[t].new_writer.id = glLocal[t].new_id

\* C28 as stated: when the body returns, with_locked_writer returns the sink
\* it was given, and that sink holds exactly the bytes the body wrote through
\* the global sink, in write order; none of them went to the original sink.
C28_SinkHoldsBodyBytes ==
    [][\A t \in Threads :
        /\ ScopedCallReturnsItsSink(t)
        /\ (glPc[t] = "check" /\ glPc'[t] = "idle" /\ glSeen[t].bodyPanic = "none") =>
                glResult'[t].sink = glSeen[t].own]_vars

\* C28 amended: when the body returns, with_locked_writer returns the sink it
\* was given, and that sink holds exactly the bytes written through the
\* global sink between the swap-in and the restoration, in write order, by
\* the body or by any other thread; the body's bytes are among them in their
\* order, and none of them went to the original sink, which is put back as
\* it was.
C28_SinkHoldsScopeBytes ==
    [][\A t \in Threads :
        /\ ScopedCallReturnsItsSink(t)
        /\ (glPc[t] = "check" /\ glPc'[t] = "idle" /\ glSeen[t].bodyPanic = "none") =>
                /\ glResult'[t].sink = glSeen[t].written
                /\ IsSubseq(glSeen[t].own, glResult'[t].sink)]_vars

\* A call has returned its sink, which holds bytes of its body and bytes
\* another thread wrote during the scope; the original sink holds bytes
\* written before the scope.
C28_Witness ==
    \E t \in DOMAIN glResult :
        /\ glPc[t] = "idle"
        /\ glResult[t].outcome = "returned"
        /\ glSeen[t].own # <<>>
        /\ glResult[t].sink # glSeen[t].own
        /\ glSeen[t].before.w.inner # <<>>


(***************************************************************************)
(* SpecGlobalHandle: Print::global() handles over the process-wide sink,    *)
(* one after the other, while another thread writes through GlobalWriter    *)
(***************************************************************************)
\* How many output calls and writes are made in all.
MaxHandleOps == 5

\* A plausible slip: the handle is built with ParagraphInspectWrite::new.
GlobalHandle_New(was_paragraph, newlines_since_last_char) ==
    ParagraphInspectWriteNew(<<>>)

\* The ParagraphInspectWrite that Print::global builds around GlobalWriter
\* from the two values read.  Its inner here holds only the bytes of the
\* call being made, which GlobalWriter::write passes on to WRITER.
GlobalHandle(was_paragraph, newlines_since_last_char) ==
    [inner |-> <<>>, was_paragraph |-> was_paragraph,
     newlines_since_last_char |-> newlines_since_last_char]

\* The handle after an output call that left its writer as r.
HandleAfter(r, state) ==
    [ghHandle EXCEPT !.w = [r EXCEPT !.inner = <<>>], !.state = state, !.first = FALSE]

\* WRITER after the bytes of an output call went through GlobalWriter::write.
\* The paragraph state of a ParagraphInspectWrite does not depend on how the
\* bytes are split into writes, so the call's bytes are passed as one.
WriterAfter(r) == WriteAll(ghWriter, r.inner, "all")

InitGlobalHandle ==
    /\ IdleParagraph
    /\ IdleMapped
    /\ IdlePrint
    /\ IdleMpsc
    /\ IdleGlobal
    /\ IdleAnsi
    /\ ghWriter = ParagraphInspectWriteNew(<<>>)
    /\ ghHandle = NoHandle
    /\ ghLast = "none"
    /\ ghOps = 0

\* Print::global, the first read: GlobalWriter::trailing_paragraph locks
\* WRITER, reads, and releases the lock.
PrintGlobalTrailingParagraph ==
    /\ ghHandle.pc = "none"
    /\ ghHandle' = [NoHandle EXCEPT !.pc = "read1", !.w.was_paragraph = ghWriter.was_paragraph]
    /\ UNCHANGED <<ghWriter, ghLast, ghOps, piwVars, mwVars, anVars, prVars, mpVars, glVars>>

\* Print::global, the second read: GlobalWriter::trailing_newline_count
\* locks WRITER again; the handle is built in state Header.
PrintGlobalTrailingNewlineCount ==
    /\ ghHandle.pc = "read1"
    /\ ghHandle' = [ghHandle EXCEPT !.pc = "ready", !.state = "Header", !.first = TRUE,
                        !.w = GlobalHandle(ghHandle.w.was_paragraph,
                                           ghWriter.newlines_since_last_char)]
    /\ UNCHANGED <<ghWriter, ghLast, ghOps, piwVars, mwVars, anVars, prVars, mpVars, glVars>>

\* Another thread writes through GlobalWriter, at any time.
OtherThreadWrite ==
    \E buf \in GlobalChunks :
        /\ ghOps < MaxHandleOps
        /\ ghWriter' = WriteAll(ghWriter, buf, "all")
        /\ ghHandle' = IF ghHandle.pc = "read1" THEN [ghHandle EXCEPT !.torn = TRUE]
                       ELSE ghHandle
        /\ ghLast' = "other"
        /\ ghOps' = ghOps + 1
        /\ UNCHANGED <<piwVars, mwVars, anVars, prVars, mpVars, glVars>>

\* Print<Header>::h1 on the global handle
GlobalHandleH1 ==
    \E s \in HeaderTexts :
        /\ ghHandle.pc = "ready" /\ ghHandle.state = "Header" /\ ghOps < MaxHandleOps
        /\ ghHandle' = HandleAfter(write_h1(ghHandle.w, s, "all"), "Bullet")
        /\ ghWriter' = WriterAfter(write_h1(ghHandle.w, s, "all"))
        /\ ghLast' = "block"
        /\ ghOps' = ghOps + 1
        /\ UNCHANGED <<piwVars, mwVars, anVars, prVars, mpVars, glVars>>

\* Print<Header>::without_header
GlobalHandleWithoutHeader ==
    /\ ghHandle.pc = "ready" /\ ghHandle.state = "Header"
    /\ ghHandle' = [ghHandle EXCEPT !.state = "Bullet"]
    /\ UNCHANGED <<ghWriter, ghLast, ghOps, piwVars, mwVars, anVars, prVars, mpVars, glVars>>

\* Print<Bullet>::bullet
GlobalHandleBullet ==
    \E s \in BulletTexts :
        /\ ghHandle.pc = "ready" /\ ghHandle.state = "Bullet" /\ ghOps < MaxHandleOps
        /\ ghHandle' = HandleAfter(write_bullet(ghHandle.w, s, "all"), "SubBullet")
        /\ ghWriter' = WriterAfter(write_bullet(ghHandle.w, s, "all"))
        /\ ghLast' = "bullet"
        /\ ghOps' = ghOps + 1
        /\ UNCHANGED <<piwVars, mwVars, anVars, prVars, mpVars, glVars>>

\* Print::warning: the handle is returned.
GlobalHandleWarning ==
    \E s \in AnnounceTexts :
        /\ ghHandle.pc = "ready" /\ AnnounceSupportedState(ghHandle.state)
        /\ ghOps < MaxHandleOps
        /\ ghHandle' = HandleAfter(write_warning(ghHandle.w, s, "all"), ghHandle.state)
        /\ ghWriter' = WriterAfter(write_warning(ghHandle.w, s, "all"))
        /\ ghLast' = "block"
        /\ ghOps' = ghOps + 1
        /\ UNCHANGED <<piwVars, mwVars, anVars, prVars, mpVars, glVars>>

\* Print::error: the handle is consumed.
GlobalHandleError ==
    \E s \in AnnounceTexts :
        /\ ghHandle.pc = "ready" /\ AnnounceSupportedState(ghHandle.state)
        /\ ghOps < MaxHandleOps
        /\ ghHandle' = NoHandle
        /\ ghWriter' = WriterAfter(write_error(ghHandle.w, s, "all"))
        /\ ghLast' = "block"
        /\ ghOps' = ghOps + 1
        /\ UNCHANGED <<piwVars, mwVars, anVars, prVars, mpVars, glVars>>

\* The handle goes out of scope.
GlobalHandleRelease ==
    /\ ghHandle.pc = "ready"
    /\ ghHandle' = NoHandle
    /\ UNCHANGED <<ghWriter, ghLast, ghOps, piwVars, mwVars, anVars, prVars, mpVars, glVars>>

NextGlobalHandle ==
    \/ PrintGlobalTrailingParagraph \/ PrintGlobalTrailingNewlineCount
    \/ OtherThreadWrite
    \/ GlobalHandleH1 \/ GlobalHandleWithoutHeader \/ GlobalHandleBullet
    \/ GlobalHandleWarning \/ GlobalHandleError \/ GlobalHandleRelease

SpecGlobalHandle == InitGlobalHandle /\ [][NextGlobalHandle]_vars

\* The step is the first output call of a handle, a header or an
\* announcement, and the last bytes that went to the process-wide sink were
\* a header or an announcement of an earlier handle.
SecondBlockStep ==
    /\ ghHandle.pc = "ready" /\ ghHandle.first
    /\ ghLast = "block" /\ ghLast' = "block"
    /\ ghWriter'.inner # ghWriter.inner

\* C29: a handle of Print::global made while no other thread writes starts
\* with the paragraph state WRITER has; and when the last output to the
\* process-wide sink was a header or announcement of an earlier global
\* handle, the header or announcement a new global handle emits first is
\* separated from it by exactly one empty line.
C29_GlobalHandleKeepsParagraph ==
    [][/\ (ghHandle.pc = "read1" /\ ghHandle'.pc = "ready" /\ ~ghHandle.torn) =>
              ParagraphState(ghHandle'.w) = ParagraphState(ghWriter)
       /\ SecondBlockStep =>
              LET before == strip_ansi(ghWriter.inner)
                  added == strip_ansi(Drop(ghWriter'.inner, Len(ghWriter.inner)))
              IN  /\ StartsWith(ghWriter'.inner, ghWriter.inner)
                  /\ TrailingNewlineCount(before) = 2 /\ Len(before) > 2
                  /\ added # <<>> /\ Head(added) # NL]_vars

\* Two handles have each emitted one block and nothing else was written:
\* the sink holds both blocks.
C29_Witness ==
    /\ ghHandle.pc = "ready" /\ ~ghHandle.first
    /\ ghLast = "block"
    /\ ghOps = 2
    /\ strip_ansi(ghWriter.inner) = <<NL, "!", " ", "w", NL, NL, "!", " ", "w", NL, NL>>

\* C30 as stated, for the process-wide sink and the handle built by
\* Print::global: trailing_paragraph is true exactly when the running
\* newline count is greater than 1.
C30_ParagraphIffCountAboveOne ==
    /\ ghWriter.was_paragraph <=> ghWriter.newlines_since_last_char > 1
    /\ ghHandle.pc = "ready" =>
          (ghHandle.w.was_paragraph <=> ghHandle.w.newlines_since_last_char > 1)


\* How many progress marks the sink holds from position k on.
RECURSIVE MarksFrom(_, _)
MarksFrom(bytes, k) ==
    IF k > Len(bytes) THEN 0
    ELSE (IF StartsWith(Drop(bytes, k - 1), TimerTickMark) THEN 1 ELSE 0)
         + MarksFrom(bytes, k + 1)

\* The worker has seen the stop signal: it has ended.
TimerObservedStop == tm.pc \in {"finished", "joined"} /\ ~tm.failed

\* C31: once done, cancel or the guard's release has signalled stop, a
\* worker that does not fail ends, and it ends from the wait it is in or
\* reaches next, without another interval passing; after it has seen the
\* signal no progress mark is added to the sink; and every done, cancel and
\* release that was begun returns.
C31_StopObservedAndReturns ==
    /\ (tm.stop /\ tm.pc \in {"start", "tick", "wait"}) ~> (TimerObservedStop \/ tm.failed)
    /\ (pstate = "Background" /\ tm.join # "none") ~> (pstate # "Background")
    /\ [][/\ (tm.stop /\ tm.pc \in {"start", "tick", "wait"}) => tm'.ticks = tm.ticks
          /\ TimerObservedStop => MarksFrom(pw'.inner, 1) = MarksFrom(pw.inner, 1)]_vars

\* done has returned to the SubBullet state after a worker that had written
\* a progress mark and passed an interval was told to stop.
C31_Witness ==
    /\ pstate = "SubBullet"
    /\ tm.pc = "joined" /\ tm.join = "done" /\ ~tm.failed
    /\ tm.ticks = MaxTicks
    /\ MarksFrom(pw.inner, 1) > 0


\* C32 as stated: once the handle has left the Header state, no transition
\* changes the start time it recorded then, so the terminal done measures
\* from the moment the handle left Header.
C32_StartTimeNeverChanges ==
    [][started # None => started' = started]_vars


\* C33 as stated: whatever was written through the handle's paragraph
\* writer, made over an empty sink, and however few bytes of each chunk the
\* sink accepts per call (write_all offers the rest again), the running
\* newline count is the number of line ends the sink's content ends with.
C33_CountIsTrailingNewlinesOfSink ==
    pw.newlines_since_last_char = TrailingNewlineCount(pw.inner)


\* C34 as stated: an unwrap or a drop of a MappedWrite whose buffer is empty
\* forwards no byte to the inner sink and does not call the mapping
\* function, whatever the function is; and while the MappedWrite lives,
\* bytes reach the inner sink only as whole mapped records, never as the
\* unterminated record a flush finds in the buffer.
C34_EmptyBufferReleaseDoesNothing ==
    [][/\ (mwLife = "live" /\ mwLife' # "live" /\ mw.buffer = <<>>) =>
              mwOut' = mwOut /\ mwCalls' = mwCalls
       /\ (mwLife = "live" /\ mwLife' = "live" /\ mwOut' # mwOut) =>
              mwCalls' # mwCalls /\ mwCalls'[Len(mwCalls')][Len(mwCalls'[Len(mwCalls')])] = NL]_vars


\* Where a byte that occurs once in a byte string lies in it.
PositionOf(bytes, b) == CHOOSE k \in DOMAIN bytes : bytes[k] = b

\* The lines written through a handle so far, the last one possibly
\* unfinished.
LinesOf(h) == SplitInclusive(Flatten(mpSent[h]), NL, <<>>)

\* C35: in stream_with, whatever the order of the writes on the two handles,
\* the bytes of one line written through a handle lie next to each other in
\* the sink, after the indentation of their line: no byte written through
\* the other handle, no line end and no second indentation lies between
\* them, also when the line was written in several calls and when it is an
\* unfinished last line forwarded by the handle's release.
C35_LinesReachSinkWhole ==
    mpMode = "stream_with" =>
        \A h \in DOMAIN mpSent : \A i \in DOMAIN LinesOf(h) :
            LET own == Only(LinesOf(h)[i], OwnBytes(h))
                there == Only(mpOut.inner, OwnBytes(h) \cap {own[k] : k \in DOMAIN own})
            IN  there # <<>> =>
                    /\ there = own
                    /\ LET at == PositionOf(mpOut.inner, own[1])
                       IN  /\ SubSeq(mpOut.inner, at, at + Len(own) - 1) = own
                           /\ at > Len(CMD_INDENT)
                           /\ SubSeq(mpOut.inner, at - Len(CMD_INDENT), at - 1) = CMD_INDENT

\* stdout's line was written in two calls and stderr's line in a call
\* between or around them; both lines are in the sink, each whole.
C35_Witness ==
    /\ mpMode = "stream_with"
    /\ mpSent["stdout"] = <<<<"o1">>, <<"o2", NL>>>>
    /\ mpSent["stderr"] = <<<<"e1", NL>>>>
    /\ Only(mpOut.inner, {"o1", "o2", "e1"}) = <<"e1", "o1", "o2">>


\* A with_locked_writer call of the thread holds the scope lock: from the
\* lock's acquisition to the end of the block.
ScopeActive(t) == glPc[t] \in {"swap", "body", "restore", "check"}

\* C36: a set_writer call with a sink that is not the marker sink, made while
\* no with_locked_writer scope is active on any thread, succeeds: it gets
\* past the try_lock and goes on to replace the sink, whatever other
\* set_writer calls are under way.
C36_SetWriterSucceedsOutsideScopes ==
    [][\A t \in Threads :
          (/\ SetWriterCall(t)
           /\ TypeCheckPasses(glLocal'[t].new_type)
           /\ \A u \in Threads : ~ScopeActive(u))
          => glPc'[t] = "set"]_vars


\* C37: the sink that with_locked_writer swaps out at the end of its scope is
\* the sink it swapped in at the start, whatever set_writer calls,
\* with_locked_writer calls and writes the threads make meanwhile; so the
\* downcast succeeds, no call ends with the fault "Writer was mutated
\* unexpectedly", and the scope lock is never poisoned.
C37_SwappedOutIsSwappedIn ==
    /\ [](/\ glScopeLock # "poisoned"
          /\ \A t \in DOMAIN glResult :
                glResult[t].payload #
                    "Could not downcast to original type. Writer was mutated unexpectedly")
    /\ [][\A t \in Threads :
            (glPc[t] = "restore" /\ glPc'[t] = "check") =>
                /\ glLocal'[t].new_writer.id = glLocal[t].new_id
                /\ glLocal'[t].new_writer = glWriter
                /\ DowncastOk(glLocal'[t].new_writer, glLocal[t].new_type)]_vars

\* A call has returned its sink with output in it, after its body or another
\* thread had tried set_writer while the scope lock was held and been refused.
C37_Witness ==
    \E t \in DOMAIN glResult : \E u \in DOMAIN glResult :
        /\ glPc[t] = "idle"
        /\ glResult[t].outcome = "returned"
        /\ glResult[t].sink # <<>>
        /\ u # t
        /\ glResult[u] = Faulted("Cannot call set_writer inside of with_locked_writer")
        /\ glWriter.id = 0


\* C40: while a with_locked_writer scope is open, from the swap-in to the
\* restoration, the box in WRITER is the override; every write through
\* GlobalWriter that any thread has under way targets the override, and the
\* override holds exactly the bytes written since the swap-in.  The original
\* sink is out of reach in old_writer: its bytes and its paragraph state stay
\* as they were at the swap-in, and that is what the restoration puts back.
C40_ScopeWritesReachOverrideOnly ==
    /\ [](\A t \in DOMAIN glPc :
            InScope(t) =>
                /\ glWriter.id = glLocal[t].new_id
                /\ glWriter.id # glSeen[t].before.id
                /\ glWriter.w.inner = glSeen[t].written
                /\ glLocal[t].old_writer = glSeen[t].before
                /\ \A u \in DOMAIN glLocal :
                      Writing(u) => glLocal[u].wr.target = glLocal[t].new_id)
    /\ [][\A t \in Threads :
            /\ (InScope(t) /\ InScope(t)' /\ glWriter' # glWriter) =>
                  /\ glWriter'.id = glWriter.id
                  /\ glLocal'[t].old_writer = glLocal[t].old_writer
            /\ (glPc[t] = "restore" /\ glPc'[t] = "check") =>
                  glWriter' = glSeen[t].before]_vars

\* A scope is open over an original sink that holds output, and a thread
\* other than the one running the body is in the middle of a write, part of
\* which is in the override.
C40_Witness ==
    \E t \in DOMAIN glPc : \E u \in DOMAIN glPc \ {t} :
        /\ glPc[t] = "body"
        /\ glSeen[t].before.w.inner # <<>>
        /\ Writing(u) /\ glLocal[u].wr.sent > 0
        /\ glSeen[t].written # <<>>
        /\ glSeen[t].own = <<>>


\* Two consecutive blank lines: three newline bytes in a row.
HasThreeNewlines(bytes) ==
    \E k \in 1..(Len(bytes) - 2) : bytes[k] = NL /\ bytes[k + 1] = NL /\ bytes[k + 2] = NL

\* No call so far was given a text with a line end in it.
SingleLineTexts == \A i \in DOMAIN hist : \A k \in DOMAIN hist[i].arg : hist[i].arg[k] # NL

\* No call so far opened a stream.
NoStreamCalls == \A i \in DOMAIN hist : hist[i].op # "start_stream"

\* The output with its colour codes stripped, call by call: the bytes in the
\* sink when the i-th call was made end outside any colour code.
RECURSIVE StrippedSince(_)
StrippedSince(i) ==
    IF i > Len(hist) THEN <<>>
    ELSE strip_ansi(SubSeq(pw.inner, hist[i].at + 1,
                           IF i = Len(hist) THEN Len(pw.inner) ELSE hist[i + 1].at))
         \o StrippedSince(i + 1)

\* C38: after any sequence of header, bullet, sub-bullet, warning, important,
\* error, done and timer calls with single-line texts on a handle made by
\* new() over an empty sink, the output with its colour codes stripped has no
\* three newline bytes in a row.
C38_NeverTwoBlankLines ==
    (SingleLineTexts /\ NoStreamCalls) => ~HasThreeNewlines(StrippedSince(1))

\* A header came after a warning, which ends with a blank line, and a timer
\* was started later and has written its marks.
C38_Witness ==
    /\ SingleLineTexts /\ NoStreamCalls /\ prCap = "all"
    /\ \E i \in DOMAIN hist : \E j \in DOMAIN hist :
          /\ i < j
          /\ hist[i].op = "warning" /\ hist[j].op = "h2" /\ hist[j].arg = <<"a">>
    /\ \E i \in DOMAIN hist : hist[i].op = "start_timer"
    /\ tm.pc = "wait"


\* C39: when Stream::done has returned, its `Done (<elapsed>)` sub-bullet is
\* the last line the call wrote, it starts on a line of its own, and the line
\* before it is blank, whatever was streamed: lines, a last line without a
\* line end, or nothing.
C39_DoneAfterBlankLine ==
    \A i \in DOMAIN hist :
        (hist[i].op = "done" /\ hist[i].from = "Stream" /\ hist[i].to = StreamDoneReturns) =>
            LET upto == IF i = Len(hist) THEN Len(pw.inner) ELSE hist[i + 1].at
                out == SubSeq(pw.inner, 1, upto)
                n == Len(StreamWithDoneLine)
            IN  /\ Len(out) >= n + 2
                /\ Suffix(out, n) = StreamWithDoneLine
                /\ Suffix(SubSeq(out, 1, Len(out) - n), 2) = <<NL, NL>>

=============================================================================
